---- MODULE Spec2Model ----
(***************************************************************************)
(* The declarative reconciliation core of the CloudStack modules           *)
(* cs_loadbalancer_rule, cs_template and cs_ip_address: one run of a       *)
(* module against the remote cloud state, the asynchronous jobs the run    *)
(* submits, tag reconciliation and load-balancer membership                *)
(* reconciliation.                                                         *)
(***************************************************************************)
EXTENDS Integers, Sequences, FiniteSets, TLC

VARIABLES
  params,      \* module.params of the current run
  remote,      \* the cloud: rules, tags, members, templates, public ips
  vms,         \* the scoped listVirtualMachines listing (a sequence)
  jobs,        \* submitted asynchronous jobs nobody polls
  job,         \* the submission being polled by poll_job
  ret,         \* where the run continues after poll_job returns
  pc,          \* position of the run
  err,         \* error kind of a failed run
  rule,        \* the local resource record (rule / template / ip address)
  changed,     \* self.result['changed']
  calls,       \* mutating remote calls issued by this run, in order
  to_assign,   \* member_ids_to_assign
  to_remove,   \* member_ids_to_remove
  tags_cache,  \* self.tags (cs_template, cs_ip_address)
  result,      \* what exit_json reports
  run,         \* number of the run
  prev,        \* summary of the previous run
  queries,     \* status queries poll_job has issued for the job it polls
  msg,         \* the message fail_json was given
  cache,       \* self.domain, self.account, ... : the memoized scope
  lookups,     \* the listings the scope resolution has asked for, in order
  returned,    \* what the scope getters have returned, in order
  cs           \* self.cs: the client session and what it was made from

vars == << params, remote, vms, jobs, job, ret, pc, err, rule, changed, calls,
           to_assign, to_remove, tags_cache, result, run, prev, queries, msg,
           cache, lookups, returned, cs >>

----------------------------------------------------------------------------
(* Bounds *)

MaxRuns == 2
MaxMembers == 2
MaxPolls == 3

----------------------------------------------------------------------------
(* Values *)

NONE == "None"
Algorithms == {"source", "roundrobin"}
RuleName == "rule1"
OtherRuleName == "rule2"
PublicIp == "1.2.3.4"
UnknownIp == "9.9.9.9"
RuleId == 1
OtherRuleId == 2
TemplateName == "tpl1"
TemplateId == 10
OtherTemplateId == 11
PublicIpId == 21

T1 == [key |-> "env", value |-> "prod"]
T2 == [key |-> "env", value |-> "test"]
T3 == [key |-> "team", value |-> "web"]
TagUniverse == {T1, T2, T3}

OsTypes == {"centos"}

VmIds == {1, 2, 3}
VmNames == {"web01", "web02", "web03"}

\* The memoized scope of a new run: self.domain = None, ... (lines 251-259).
ScopeKinds ==
  {"domain", "account", "project", "zone", "vm", "os_type", "hypervisor",
   "capabilities", "ip_address"}
\* An entity of a listing; a field of NONE is a key the dict does not hold.
\* NoEnt is Python's None.
NoEnt == [id |-> NONE, name |-> NONE, path |-> NONE, displayname |-> NONE,
          description |-> NONE]
NoCache == [k \in ScopeKinds |-> NoEnt]

\* No session yet, and the fields a session is made from.
NoSession == [via |-> NONE, endpoint |-> NONE, key |-> NONE, secret |-> NONE,
              region |-> NONE]

NoTags == [given |-> FALSE, tags |-> {}]
NoMembers == [given |-> FALSE, names |-> << >>]

None == [id |-> 0, name |-> NONE, algorithm |-> NONE, has_tags |-> FALSE,
         tags |-> {}, isstaticnat |-> FALSE, publicport |-> 0,
         privateport |-> 0]

\* A request / job record; every remote call is one of these.
Req(op) == [op |-> op, id |-> 0, name |-> NONE, publicip |-> NONE,
            algorithm |-> NONE, publicport |-> 0, privateport |-> 0,
            tags |-> {}, vms |-> {}]

\* The texts an errortext field can carry.
ErrorTexts == {"X", "Y"}

\* The record a mutating call answers with: it carries a jobid or not.
Submission(jobid) ==
  [None EXCEPT !.name = IF jobid THEN "jobid" ELSE "response"]

\* What poll_job works on. jobid: the record it is given carries a jobid;
\* key: a result key is asked for; assign: the caller keeps what poll_job
\* returns. status is what queryAsyncJobResult answers now: "pending"
\* (jobstatus 0), "ok" (done, a jobresult without errortext), "error" (done,
\* a jobresult with errortext), "noresult" (done, no jobresult); haskey:
\* the jobresult holds the key asked for, and res is what it holds there.
NoJob ==
  [req |-> Req(NONE), jobid |-> FALSE, key |-> FALSE, assign |-> FALSE,
   status |-> "none", haskey |-> FALSE, errortext |-> NONE, res |-> None]

StartJob(rq, key, assign) ==
  [NoJob EXCEPT !.req = rq, !.jobid = TRUE, !.key = key, !.assign = assign,
                !.status = "pending"]

----------------------------------------------------------------------------
(* Change Detector *)

\* A field value: Python None, an int or a str (v holds the text of either).
NoneV == [t |-> "none", v |-> ""]
StrV(s) == IF s = NONE THEN NoneV ELSE [t |-> "str", v |-> s]
IntV(n) == [t |-> "int", v |-> ToString(n)]

\* Texts int() accepts, with the text of the integer each denotes.
Numerals == {"1", "2", "80", "080", "8080"}
int_text(s) == IF s = "080" THEN "80" ELSE s

\* Line 309 / 311: the observed value as the desired value's type.
\* The result is {} when int() raises.
coerce(value, current) ==
  IF value.t = "int"
    THEN IF current.t = "int" THEN {current}
         ELSE IF current.t = "str" /\ current.v \in Numerals
                THEN {[t |-> "int", v |-> int_text(current.v)]}
                ELSE {}
    ELSE IF value.t = "str"
      THEN {[t |-> "str", v |-> IF current.t = "none" THEN "None"
                                ELSE current.v]}
      ELSE {current}

\* The keys the loop does not skip.
compared_keys(want_dict, current_dict, only_keys) ==
  {k \in DOMAIN want_dict :
      /\ (only_keys = {} \/ k \in only_keys)
      /\ want_dict[k].t # "none"
      /\ k \in DOMAIN current_dict}

\* A variant of the change detector that compares the current value with
\* itself.
mutant_has_changed(want_dict, current_dict, only_keys) == {"false"}

\* has_changed: the outcomes the loop can end with. The dict is walked in
\* an arbitrary order, so a raising key and a differing key race.
has_changed(want_dict, current_dict, only_keys) ==
  LET ks == compared_keys(want_dict, current_dict, only_keys)
      bad == {k \in ks : coerce(want_dict[k], current_dict[k]) = {}}
      dif == {k \in ks \ bad :
                coerce(want_dict[k], current_dict[k]) # {want_dict[k]}}
  IN  (IF dif # {} THEN {"true"} ELSE {})
      \cup (IF bad # {} THEN {"raise"} ELSE {})
      \cup (IF dif = {} /\ bad = {} THEN {"false"} ELSE {})

----------------------------------------------------------------------------
(* The remote cloud, at its interface *)

Rule(id, name, ip, alg, pub, priv) ==
  [id |-> id, name |-> name, publicip |-> ip, algorithm |-> alg,
   publicport |-> pub, privateport |-> priv]

OtherRule == Rule(OtherRuleId, OtherRuleName, PublicIp, "source", 443, 8443)

ResourceIds == {RuleId, OtherRuleId}

RuleIds(rem) == {r.id : r \in rem.rules}

\* What the API returns for a rule: its fields and its tags.
rule_record(rem, r) ==
  [id |-> r.id, name |-> r.name, algorithm |-> r.algorithm, has_tags |-> TRUE,
   tags |-> rem.tags[r.id], isstaticnat |-> FALSE, publicport |-> r.publicport,
   privateport |-> r.privateport]

Template(id, name, checksum) == [id |-> id, name |-> name, checksum |-> checksum]
Tpl1 == Template(TemplateId, TemplateName, "abc")
Tpl2 == Template(OtherTemplateId, "tpl2", "def")

IpPool == {PublicIp, "5.6.7.8"}
IpAddress(addr, nat) ==
  [id |-> IF addr = PublicIp THEN PublicIpId ELSE PublicIpId + 1,
   ipaddress |-> addr, isstaticnat |-> nat]

\* The remote states a job's operation can lead to when it succeeds: none
\* when the resource it names is not there (a create: is there already, an
\* associate: no address is free).
job_outcomes(rem, rq) ==
  CASE rq.op = "createLoadBalancerRule" ->
         IF \E r \in rem.rules : r.name = rq.name /\ r.publicip = rq.publicip
           THEN {}
           ELSE {[rem EXCEPT !.rules = @ \cup
                    {Rule(RuleId, rq.name, rq.publicip, rq.algorithm,
                          rq.publicport, rq.privateport)}]}
    [] rq.op = "updateLoadBalancerRule" ->
         IF rq.id \notin RuleIds(rem) THEN {}
         ELSE {[rem EXCEPT !.rules =
                 {IF r.id = rq.id /\ rq.algorithm # NONE
                    THEN [r EXCEPT !.algorithm = rq.algorithm] ELSE r : r \in @}]}
    [] rq.op = "deleteLoadBalancerRule" ->
         IF rq.id \notin RuleIds(rem) THEN {}
         ELSE {[rem EXCEPT !.rules = {r \in @ : r.id # rq.id},
                           !.tags[rq.id] = {}, !.members[rq.id] = {}]}
    [] rq.op = "createTags" ->
         IF rq.id \notin RuleIds(rem) THEN {}
         ELSE {[rem EXCEPT !.tags[rq.id] = @ \cup rq.tags]}
    [] rq.op = "deleteTags" ->
         IF rq.id \notin RuleIds(rem) THEN {}
         ELSE {[rem EXCEPT !.tags[rq.id] = @ \ rq.tags]}
    [] rq.op = "assignToLoadBalancerRule" ->
         IF rq.id \notin RuleIds(rem) THEN {}
         ELSE {[rem EXCEPT !.members[rq.id] = @ \cup rq.vms]}
    [] rq.op = "removeFromLoadBalancerRule" ->
         IF rq.id \notin RuleIds(rem) THEN {}
         ELSE {[rem EXCEPT !.members[rq.id] = @ \ rq.vms]}
    [] rq.op \in {"createTemplate", "registerTemplate"} ->
         IF Tpl1 \in rem.templates THEN {}
         ELSE {[rem EXCEPT !.templates = @ \cup {Tpl1}]}
    [] rq.op = "deleteTemplate" ->
         IF rq.id \notin {t.id : t \in rem.templates} THEN {}
         ELSE {[rem EXCEPT !.templates = {t \in @ : t.id # rq.id}]}
    [] rq.op = "associateIpAddress" ->
         {[rem EXCEPT !.ips = @ \cup {IpAddress(a, FALSE)}] :
            a \in IpPool \ {ip.ipaddress : ip \in rem.ips}}
    [] rq.op = "disassociateIpAddress" ->
         IF rq.id \notin {ip.id : ip \in rem.ips} THEN {}
         ELSE {[rem EXCEPT !.ips = {ip \in @ : ip.id # rq.id}]}
    [] OTHER -> {}

resource_of_template(t) == [None EXCEPT !.id = t.id, !.name = t.name]
resource_of_ip(ip) ==
  [None EXCEPT !.id = ip.id, !.name = ip.ipaddress, !.isstaticnat = ip.isstaticnat]

\* What the finished job's result carries under the caller's key.
job_result(before, rem, rq) ==
  CASE rq.op \in {"createLoadBalancerRule", "updateLoadBalancerRule"} ->
         LET m == {r \in rem.rules : r.name = rq.name \/ r.id = rq.id}
         IN  IF m = {} THEN None ELSE rule_record(rem, CHOOSE r \in m : TRUE)
    [] rq.op = "createTemplate" -> resource_of_template(Tpl1)
    [] rq.op = "associateIpAddress" ->
         LET m == rem.ips \ before.ips
         IN  IF m = {} THEN None ELSE resource_of_ip(CHOOSE ip \in m : TRUE)
    [] OTHER -> None

----------------------------------------------------------------------------
(* Steps shared by every module *)

remoteVars == << remote, vms, jobs >>
memberVars == << to_assign, to_remove >>
runVars == << params, run, prev >>
scopeVars == << cache, lookups, returned, cs >>

Ended == pc \in {"done", "failed", "crashed"}

\* module.fail_json: the run ends with an error and reports no result.
\* A variant of the failure that drops the message.
mutant_fail_with(kind, text) ==
  /\ pc' = "failed"
  /\ err' = kind
  /\ msg' = NONE

fail_with(kind, text) ==
  /\ pc' = "failed"
  /\ err' = kind
  /\ msg' = text

fail_json(kind) == fail_with(kind, NONE)

\* A getter ended the run, through fail_json or through an exception.
scope_stops(s) ==
  IF s.crashed THEN pc' = "crashed" /\ UNCHANGED << err, msg >>
  ELSE fail_with(s.err, s.msg)

\* The call is appended to the run's record of mutating calls.
issue(rq) == calls' = Append(calls, rq)

\* `if rule:` of present_lb_rule (line 743).
after_rule(r) == IF r.id # 0 THEN "ensure_tags" ELSE "exit"

\* A variant that goes back to the create when the rule call is over.
mutant_goto(next, r) == IF next = "after_rule" THEN "create" ELSE next

\* Where a step goes on: symbolic continuations are resolved here.
goto(next, r) == IF next = "after_rule" THEN after_rule(r) ELSE next

\* A variant that never waits for the job of the call.
mutant_checked_call(rq, assign, next) ==
  /\ issue(rq)
  /\ \E response \in {"errortext", "jobid"} :
       IF response = "errortext"
         THEN /\ fail_json("RemoteOperationError")
              /\ UNCHANGED << job, queries, ret, jobs >>
         ELSE /\ jobs' = jobs \cup {rq}
              /\ pc' = goto(next, rule)
              /\ UNCHANGED << err, msg, job, queries, ret >>

\* A mutating call whose response is checked for errortext and whose job
\* is polled when poll_async is set (the pattern of lines 758-764). assign
\* says whether the caller assigns poll_job's result to its resource.
checked_call(rq, assign, next) ==
  /\ issue(rq)
  /\ \E response \in {"errortext", "jobid"} :
       IF response = "errortext"
         THEN /\ fail_json("RemoteOperationError")
              /\ UNCHANGED << job, queries, ret, jobs >>
         ELSE IF params.poll_async
           THEN /\ job' = StartJob(rq, TRUE, assign)
                /\ queries' = 0
                /\ ret' = next
                /\ pc' = "poll_job"
                /\ UNCHANGED << err, msg, jobs >>
           ELSE /\ jobs' = jobs \cup {rq}
                /\ pc' = goto(next, rule)
                /\ UNCHANGED << err, msg, job, queries, ret >>

\* A variant that always hands back what the jobresult holds under the key.
mutant_poll_result(j) == j.res

\* What poll_job returns when the job is done: the sub-object under the
\* key if one is asked for and the jobresult holds it, else the record it
\* was given (lines 580-584).
poll_result(j) ==
  IF j.key /\ j.haskey THEN j.res ELSE Submission(j.jobid)

\* poll_job (lines 573-584): without a jobid it returns at once; else one
\* turn of its loop, a status query and then the way out or the sleep. A
\* job that stays pending is asked at most MaxPolls times; the queries of
\* a finished job are counted up to MaxPolls.
poll_job ==
  /\ pc = "poll_job"
  /\ IF ~job.jobid
       THEN /\ rule' = IF job.assign THEN poll_result(job) ELSE rule
            /\ pc' = goto(ret, rule')
            /\ job' = NoJob
            /\ ret' = NONE
            /\ UNCHANGED << err, msg, queries >>
       ELSE CASE job.status = "pending" ->
                   /\ queries < MaxPolls
                   /\ queries' = queries + 1
                   /\ pc' = "poll_sleep"
                   /\ UNCHANGED << err, msg, rule, job, ret >>
              [] job.status = "noresult" ->
                   /\ queries' = IF queries < MaxPolls THEN queries + 1
                                 ELSE queries
                   /\ pc' = "poll_sleep"
                   /\ UNCHANGED << err, msg, rule, job, ret >>
              [] job.status = "error" ->
                   /\ queries' = queries + 1
                   /\ fail_with("RemoteOperationError", job.errortext)
                   /\ UNCHANGED << rule, job, ret >>
              [] job.status = "ok" ->
                   /\ queries' = queries + 1
                   /\ rule' = IF job.assign THEN poll_result(job) ELSE rule
                   /\ pc' = goto(ret, rule')
                   /\ job' = NoJob
                   /\ ret' = NONE
                   /\ UNCHANGED << err, msg >>
  /\ UNCHANGED << remoteVars, runVars, scopeVars, memberVars, changed, calls,
                  tags_cache, result >>

\* A variant of the loop that leaves after the sleep.
mutant_poll_sleep ==
  /\ pc = "poll_sleep"
  /\ pc' = goto(ret, rule)
  /\ UNCHANGED << remoteVars, runVars, scopeVars, memberVars, job, queries,
                  ret, err, msg, rule, changed, calls, tags_cache, result >>

\* time.sleep(2), then the next turn of the loop (line 583).
poll_sleep ==
  /\ pc = "poll_sleep"
  /\ pc' = "poll_job"
  /\ UNCHANGED << remoteVars, runVars, scopeVars, memberVars, job, queries,
                  ret, err, msg, rule, changed, calls, tags_cache, result >>

\* The cloud finishes the polled job: it applies the operation or fails it.
remote_finish_polled ==
  /\ job.status = "pending"
  /\ \E ok \in BOOLEAN :
       IF ok
         THEN /\ remote' \in job_outcomes(remote, job.req)
              /\ job' = [job EXCEPT !.status = "ok", !.haskey = TRUE,
                           !.res = job_result(remote, remote', job.req)]
         ELSE /\ \E text \in ErrorTexts :
                   job' = [job EXCEPT !.status = "error", !.errortext = text]
              /\ UNCHANGED remote
  /\ UNCHANGED << vms, jobs, runVars, scopeVars, memberVars, ret, pc, err,
                  msg, rule, changed, calls, tags_cache, result, queries >>

\* The cloud finishes a job nobody polls.
remote_finish_unpolled ==
  /\ \E rq \in jobs :
       /\ jobs' = jobs \ {rq}
       /\ \E ok \in BOOLEAN :
            IF ok /\ job_outcomes(remote, rq) # {}
              THEN remote' \in job_outcomes(remote, rq)
              ELSE UNCHANGED remote
  /\ UNCHANGED << vms, job, queries, runVars, scopeVars, memberVars, ret, pc, err, msg, rule, changed,
                  calls, tags_cache, result >>

\* get_result and exit_json (lines 855-860).
main_exit ==
  /\ pc = "exit"
  /\ pc' = "done"
  /\ result' = [changed |-> changed, tags |-> rule.tags]
  /\ UNCHANGED << remoteVars, runVars, scopeVars, memberVars, job, queries, ret, err, msg, rule,
                  changed, calls, tags_cache >>

----------------------------------------------------------------------------
(* Scope resolution: the getters of AnsibleCloudStack (lines 319-485,
   560-565) *)

\* str.lower() on the texts of this model.
LowerTable ==
  [s \in {"OPS", "Web", "P-1", "Zone1", "Zone2", "Z-2", "WEB01", "CentOS",
          "Debian", "OS-2", "KVM", "VMware", "VMWARE", "ROOT", "ROOT/ops",
          "ROOT/dev", "ROOT/root", "ROOT/root/ops"} |->
     CASE s = "OPS" -> "ops" [] s = "Web" -> "web" [] s = "P-1" -> "p-1"
       [] s = "Zone1" -> "zone1" [] s = "Zone2" -> "zone2"
       [] s = "Z-2" -> "z-2" [] s = "WEB01" -> "web01"
       [] s = "CentOS" -> "centos" [] s = "Debian" -> "debian"
       [] s = "OS-2" -> "os-2" [] s = "KVM" -> "kvm"
       [] s = "VMware" -> "vmware" [] s = "VMWARE" -> "vmware"
       [] s = "ROOT" -> "root" [] s = "ROOT/ops" -> "root/ops"
       [] s = "ROOT/dev" -> "root/dev" [] s = "ROOT/root" -> "root/root"
       [] s = "ROOT/root/ops" -> "root/root/ops"]

lower(s) == IF s \in DOMAIN LowerTable THEN LowerTable[s] ELSE s

\* What the cloud lists, in the order it lists it.
Domains ==
  << [NoEnt EXCEPT !.id = "d-1", !.name = "ROOT", !.path = "ROOT"],
     [NoEnt EXCEPT !.id = "d-2", !.name = "ops", !.path = "ROOT/ops"],
     [NoEnt EXCEPT !.id = "d-3", !.name = "dev", !.path = "ROOT/dev"],
     [NoEnt EXCEPT !.id = "d-4", !.name = "root", !.path = "ROOT/root"],
     [NoEnt EXCEPT !.id = "d-5", !.name = "ops", !.path = "ROOT/root/ops"] >>
Accounts ==
  << [NoEnt EXCEPT !.id = "a-1", !.name = "admin", !.path = "d-2"] >>
Projects ==
  << [NoEnt EXCEPT !.id = "p-1", !.name = "Web"],
     [NoEnt EXCEPT !.id = "p-2", !.name = "Db"] >>
Zones ==
  << [NoEnt EXCEPT !.id = "z-1", !.name = "Zone1"],
     [NoEnt EXCEPT !.id = "z-2", !.name = "Zone2"] >>
VirtualMachines ==
  << [NoEnt EXCEPT !.id = "vm-1", !.name = "web01", !.displayname = "Web 01"],
     [NoEnt EXCEPT !.id = "vm-2", !.name = "web02", !.displayname = "Web 02"] >>
OsTypeList ==
  << [NoEnt EXCEPT !.id = "os-1", !.description = "CentOS"],
     [NoEnt EXCEPT !.id = "os-2", !.description = "Debian"] >>
Hypervisors ==
  << [NoEnt EXCEPT !.name = "KVM"], [NoEnt EXCEPT !.name = "VMware"] >>
Capability == [NoEnt EXCEPT !.name = "cloudstack", !.description = "4.5"]

\* The entities of each kind.
Catalogue ==
  [domain |-> Domains, account |-> Accounts, project |-> Projects,
   zone |-> Zones, vm |-> VirtualMachines, os_type |-> OsTypeList,
   hypervisor |-> Hypervisors, capabilities |-> << Capability >>]

\* What a listing answers: everything of the kind, or nothing in a cloud
\* that has none (the cs client then hands back an empty dict).
listing(p, entities) == IF p.cloud = "empty" THEN << >> ELSE entities

\* listAccounts(name, domainid): the accounts of that name in that domain.
listAccounts(p, name, domainid) ==
  SelectSeq(listing(p, Accounts),
            LAMBDA a : a.name = name /\ a.path = domainid)

\* A getter works on the caches and the listings issued so far, and leaves
\* what it returns in ent (a whole entity) or field (one key of it); err
\* and msg are set when it ends the run through fail_json, crashed when it
\* ends it through an exception.
Scope(p, c, l) ==
  [p |-> p, cache |-> c, lookups |-> l, err |-> NONE, msg |-> NONE,
   crashed |-> FALSE, ent |-> NoEnt, field |-> NONE]

\* A variant in which fail_json does not end the run.
mutant_Stopped(s) == s.crashed

\* fail_json exits and an exception unwinds: nothing more of the run
\* happens.
Stopped(s) == s.err # NONE \/ s.crashed

scope_fail(s, kind, text) ==
  [s EXCEPT !.err = kind, !.msg = text, !.ent = NoEnt, !.field = NONE]

return_None(s) == [s EXCEPT !.ent = NoEnt, !.field = NONE]

listed(s, op) == [s EXCEPT !.lookups = Append(@, op)]

\* `for x in listing: if <match>: ...`: the first entity that matches.
\* matching holds the places of the entities that match.
first_match(entities, matching) ==
  IF matching = {} THEN NoEnt
  ELSE entities[CHOOSE i \in matching : \A j \in matching : i <= j]

\* _get_by_key (lines 319-324). The load-balancer copy looks the key up in
\* None itself, which raises TypeError; the other copies take None as {}.
_get_by_key(s, key, my_dict) ==
  IF key # NONE
    THEN IF my_dict = NoEnt /\ s.p.module = "lb"
           THEN [s EXCEPT !.crashed = TRUE, !.ent = NoEnt, !.field = NONE]
           ELSE IF my_dict[key] # NONE
             THEN [s EXCEPT !.ent = NoEnt, !.field = my_dict[key]]
             ELSE scope_fail(s, "InternalError", "Something went wrong")
    ELSE [s EXCEPT !.ent = my_dict, !.field = NONE]

\* A getter stores the entity it found and returns it through _get_by_key.
found(s, kind, e, key) ==
  _get_by_key([s EXCEPT !.cache[kind] = e], key, e)

\* A variant of get_domain that returns the first listed domain when none
\* matches.
mutant_get_domain(s, key) ==
  IF s.cache.domain # NoEnt THEN _get_by_key(s, key, s.cache.domain)
  ELSE IF s.p.wanted.domain = NONE THEN return_None(s)
  ELSE found(listed(s, "listDomains"), "domain", Domains[1], key)

\* get_domain (lines 469-485)
get_domain(s, key) ==
  IF s.cache.domain # NoEnt THEN _get_by_key(s, key, s.cache.domain)
  ELSE IF s.p.wanted.domain = NONE THEN return_None(s)
  ELSE
    LET domain == s.p.wanted.domain
        s1 == listed(s, "listDomains")
        domains == listing(s.p, Domains)
        d == first_match(domains, {i \in 1..Len(domains) :
               lower(domains[i].path) \in
                 {lower(domain), "root/" \o lower(domain),
                  "root" \o lower(domain)}})
    IN IF d # NoEnt THEN found(s1, "domain", d, key)
       ELSE scope_fail(s1, "ResourceNotFound", "Domain not found")

\* A variant of get_account that does not ask for a domain.
mutant_get_account(s, key) ==
  IF s.cache.account # NoEnt THEN _get_by_key(s, key, s.cache.account)
  ELSE IF s.p.wanted.account = NONE THEN return_None(s)
  ELSE
    LET s1 == get_domain(s, "id")
        s2 == listed(s1, "listAccounts")
        accounts == listAccounts(s.p, s.p.wanted.account, s1.field)
    IN IF Stopped(s1) THEN s1
       ELSE IF accounts # << >> THEN found(s2, "account", accounts[1], key)
       ELSE scope_fail(s2, "ResourceNotFound", "Account not found")

\* What get_account does with the answer of listAccounts.
account_listed(s2, accounts, key) ==
  IF accounts # << >> THEN found(s2, "account", accounts[1], key)
  ELSE scope_fail(s2, "ResourceNotFound", "Account not found")

\* get_account (lines 446-466); s1 is what get_domain left.
get_account(s, key) ==
  IF s.cache.account # NoEnt THEN _get_by_key(s, key, s.cache.account)
  ELSE IF s.p.wanted.account = NONE THEN return_None(s)
  ELSE IF s.p.wanted.domain = NONE
    THEN scope_fail(s, "ConfigError", "Account must be specified with Domain")
  ELSE
    CHOOSE after \in
      {IF Stopped(s1) THEN s1
       ELSE account_listed(listed(s1, "listAccounts"),
              listAccounts(s.p, s.p.wanted.account, s1.field), key) :
         s1 \in {get_domain(s, "id")}} : TRUE

\* A variant of get_project that lists the projects without resolving the
\* account and the domain.
mutant_get_project(s, key) ==
  IF s.cache.project # NoEnt THEN _get_by_key(s, key, s.cache.project)
  ELSE IF s.p.wanted.project = NONE THEN return_None(s)
  ELSE
    LET project == s.p.wanted.project
        s3 == listed(s, "listProjects")
        projects == listing(s.p, Projects)
        e == first_match(projects, {i \in 1..Len(projects) :
               lower(project) \in {lower(projects[i].name), projects[i].id}})
    IN IF e # NoEnt THEN found(s3, "project", e, key)
       ELSE scope_fail(s3, "ResourceNotFound", "project not found")

\* What get_project does with the answer of listProjects.
project_listed(s3, project, projects, key) ==
  LET e == first_match(projects, {i \in 1..Len(projects) :
             lower(project) \in {lower(projects[i].name), projects[i].id}})
  IN IF e # NoEnt THEN found(s3, "project", e, key)
     ELSE scope_fail(s3, "ResourceNotFound", "project not found")

\* get_project (lines 327-343); s1 is what get_account left, s2 what
\* get_domain left after it.
get_project(s, key) ==
  IF s.cache.project # NoEnt THEN _get_by_key(s, key, s.cache.project)
  ELSE IF s.p.wanted.project = NONE THEN return_None(s)
  ELSE
    CHOOSE after \in
      UNION {{IF Stopped(s1) THEN s1
              ELSE IF Stopped(s2) THEN s2
              ELSE project_listed(listed(s2, "listProjects"),
                     s.p.wanted.project, listing(s.p, Projects), key) :
                s2 \in {IF Stopped(s1) THEN s1 ELSE get_domain(s1, "id")}} :
             s1 \in {get_account(s, "name")}} : TRUE

\* A variant of get_zone that takes the last listed zone when none is asked
\* for.
mutant_get_zone(s, key) ==
  IF s.cache.zone # NoEnt THEN _get_by_key(s, key, s.cache.zone)
  ELSE
    LET zone == s.p.wanted.zone
        s1 == listed(s, "listZones")
        zones == listing(s.p, Zones)
        z == first_match(zones, {i \in 1..Len(zones) :
               zone \in {zones[i].name, zones[i].id}})
    IN IF zone = NONE
         THEN IF zones = << >>
                THEN [s1 EXCEPT !.crashed = TRUE]
                ELSE found(s1, "zone", zones[Len(zones)], key)
       ELSE IF z # NoEnt THEN found(s1, "zone", z, key)
       ELSE scope_fail(s1, "ResourceNotFound", "zone not found")

\* get_zone (lines 390-407): zones['zone'][0] of an empty answer raises
\* KeyError.
get_zone(s, key) ==
  IF s.cache.zone # NoEnt THEN _get_by_key(s, key, s.cache.zone)
  ELSE
    LET zone == s.p.wanted.zone
        s1 == listed(s, "listZones")
        zones == listing(s.p, Zones)
        z == first_match(zones, {i \in 1..Len(zones) :
               zone \in {zones[i].name, zones[i].id}})
    IN IF zone = NONE
         THEN IF zones = << >>
                THEN [s1 EXCEPT !.crashed = TRUE]
                ELSE found(s1, "zone", zones[1], key)
       ELSE IF z # NoEnt THEN found(s1, "zone", z, key)
       ELSE scope_fail(s1, "ResourceNotFound", "zone not found")

\* get_vm (lines 368-387)
get_vm(s, key) ==
  IF s.cache.vm # NoEnt THEN _get_by_key(s, key, s.cache.vm)
  ELSE IF s.p.wanted.vm = NONE
    THEN scope_fail(s, "ConfigError", "Virtual machine param 'vm' is required")
  ELSE
    LET vm == s.p.wanted.vm
        s1 == get_account(s, "name")
        s2 == get_domain(s1, "id")
        s3 == get_project(s2, "id")
        s4 == get_zone(s3, "id")
        s5 == listed(s4, "listVirtualMachines")
        machines == listing(s.p, VirtualMachines)
        v == first_match(machines, {i \in 1..Len(machines) :
               vm \in {machines[i].name, machines[i].displayname,
                       machines[i].id}})
    IN IF Stopped(s1) THEN s1
       ELSE IF Stopped(s2) THEN s2
       ELSE IF Stopped(s3) THEN s3
       ELSE IF Stopped(s4) THEN s4
       ELSE IF v # NoEnt THEN found(s5, "vm", v, key)
       ELSE scope_fail(s5, "ResourceNotFound", "Virtual machine not found")

\* get_os_type (lines 410-424): the cached branch hands self.zone, not
\* self.os_type, to _get_by_key.
get_os_type(s, key) ==
  IF s.cache.os_type # NoEnt THEN _get_by_key(s, key, s.cache.zone)
  ELSE IF s.p.wanted.os_type = NONE THEN return_None(s)
  ELSE
    LET os_type == s.p.wanted.os_type
        s1 == listed(s, "listOsTypes")
        os_types == listing(s.p, OsTypeList)
        o == first_match(os_types, {i \in 1..Len(os_types) :
               os_type \in {os_types[i].description, os_types[i].id}})
    IN IF o # NoEnt THEN found(s1, "os_type", o, key)
       ELSE scope_fail(s1, "ResourceNotFound", "OS type not found")

\* get_hypervisor (lines 427-443): it stores and returns the name.
\* hypervisors['hypervisor'] of an empty answer raises KeyError.
get_hypervisor(s) ==
  IF s.cache.hypervisor # NoEnt
    THEN [s EXCEPT !.ent = NoEnt, !.field = s.cache.hypervisor.name]
  ELSE
    LET hypervisor == s.p.wanted.hypervisor
        s1 == listed(s, "listHypervisors")
        hypervisors == listing(s.p, Hypervisors)
        h == first_match(hypervisors, {i \in 1..Len(hypervisors) :
               lower(hypervisor) = lower(hypervisors[i].name)})
        chosen == IF hypervisor = NONE THEN hypervisors[1] ELSE h
    IN IF hypervisors = << >> THEN [s1 EXCEPT !.crashed = TRUE]
       ELSE IF chosen # NoEnt
         THEN [s1 EXCEPT !.cache.hypervisor = chosen, !.ent = NoEnt,
                         !.field = chosen.name]
         ELSE scope_fail(s1, "ResourceNotFound", "Hypervisor not found")

\* get_capabilities (lines 560-565)
get_capabilities(s, key) ==
  IF s.cache.capabilities # NoEnt
    THEN _get_by_key(s, key, s.cache.capabilities)
  ELSE found(listed(s, "listCapabilities"), "capabilities",
             Capability, key)

\* One step of a method that resolves its scope: a getter called with the
\* key the modules ask for, or a listing. It works on the outcome of the
\* step before, computed once, and is left out when that ended the run.
scope_step(before, step) ==
  CHOOSE after \in
    {IF Stopped(s) THEN s
     ELSE CASE step = "account" -> get_account(s, "name")
            [] step = "domain" -> get_domain(s, "id")
            [] step = "project" -> get_project(s, "id")
            [] step = "zone" -> get_zone(s, "id")
            [] OTHER -> listed(s, step) : s \in {before}} : TRUE

\* A listed public address as the getter keeps it.
ip_entity(ip) == [NoEnt EXCEPT !.id = ToString(ip.id), !.name = ip.ipaddress]

\* The steps of get_ip_address down to the listing (lines 631-636).
ip_address_listed(s) ==
  scope_step(
    scope_step(scope_step(scope_step(s, "account"), "domain"), "project"),
    "listPublicIpAddresses")

\* get_ip_address of cs_loadbalancer_rule (lines 623-642), for
\* param_name='public_ip', on the addresses the cloud lists.
lb_get_ip_address(s, key, ips) ==
  IF Stopped(s) THEN s
  ELSE IF s.cache.ip_address # NoEnt
    THEN _get_by_key(s, key, s.cache.ip_address)
  ELSE IF s.p.public_ip = NONE
    THEN scope_fail(s, "ConfigError",
                    "IP address param 'public_ip' is required")
  ELSE
    LET m == {ip \in ips : ip.ipaddress = s.p.public_ip}
    IN CHOOSE after \in
         {IF Stopped(s1) THEN s1
          ELSE IF m = {}
            THEN scope_fail(s1, "ResourceNotFound",
                            "IP address '" \o s.p.public_ip \o "' not found")
          ELSE found(s1, "ip_address", ip_entity(CHOOSE ip \in m : TRUE), key) :
            s1 \in {ip_address_listed(s)}} : TRUE

\* _get_common_args (lines 651-659): the five getters, in the order of
\* the dict.
_get_common_args(s, ips) ==
  CHOOSE after \in
    {lb_get_ip_address(s1, "id", ips) :
       s1 \in {scope_step(
                 scope_step(scope_step(scope_step(s, "account"), "domain"),
                            "project"),
                 "zone")}} : TRUE

\* The getters and the listing of get_tags: cs_loadbalancer_rule (lines
\* 488-495) lists every time, cs_template and cs_ip_address (lines 638-646)
\* when self.tags is empty.
get_tags_scope(s, cached) ==
  IF cached THEN s
  ELSE IF s.p.module = "lb"
    THEN scope_step(scope_step(scope_step(s, "project"), "domain"),
                    "listTags")
  ELSE scope_step(
         scope_step(scope_step(scope_step(s, "project"), "account"),
                    "domain"),
         "listTags")

\* The getters and the listing of get_wanted_members_ids (lines 662-669).
get_wanted_members_scope(s) ==
  scope_step(
    scope_step(
      scope_step(scope_step(scope_step(s, "account"), "domain"), "project"),
      "zone"),
    "listVirtualMachines")

\* The identifiers of a run: module.params of the scope kinds.
Named ==
  [domain |-> "ops", account |-> "admin", project |-> "Web",
   zone |-> "Zone2", vm |-> "web01", os_type |-> "Debian",
   hypervisor |-> "VMware"]

Unnamed == [k \in DOMAIN Named |-> NONE]

----------------------------------------------------------------------------
(* Tag reconciliation: ensure_tags and its helpers *)

Range(f) == {f[i] : i \in DOMAIN f}

\* cs_template and cs_ip_address keep self.tags and poll the tag jobs;
\* cs_loadbalancer_rule does neither.
caches_tags == params.module # "lb"

\* `if not self.tags:` of get_tags in cs_template and cs_ip_address.
tags_cached == caches_tags /\ tags_cache # {}

\* get_tags: the listing, or self.tags when that is set and not empty.
get_tags(resource) ==
  IF tags_cached THEN tags_cache
  ELSE remote.tags[resource.id]

\* A variant that finds nothing to delete.
mutant_tags_that_should_not_exist(resource, tags) == {}

_tags_that_should_not_exist(resource, tags) ==
  {tag \in get_tags(resource) : tag \notin tags}

\* A variant that sends every desired tag again, present or not.
mutant_tags_that_should_exist(resource, tags) == tags

_tags_that_should_exist_or_be_updated(resource, tags) ==
  {tag \in tags : tag \notin get_tags(resource)}

\* Where ensure_tags returns to.
after_tags == IF params.entry = "main" THEN "present_members" ELSE "exit"

\* _delete_tags / _create_tags / _process_tags: the response is never
\* looked at for errortext; only cs_template and cs_ip_address poll its job.
_process_tags(operation, resource, tags, next) ==
  IF tags = {}
    THEN /\ pc' = next
         /\ UNCHANGED << changed, calls, jobs, job, queries, ret >>
    ELSE /\ changed' = TRUE
         /\ IF params.check_mode
              THEN /\ pc' = next
                   /\ UNCHANGED << calls, jobs, job, queries, ret >>
              ELSE LET rq == [Req(operation) EXCEPT !.id = resource.id,
                                                    !.tags = tags]
                   IN  /\ issue(rq)
                       /\ \E response \in {"errortext", "jobid"} :
                            IF response = "errortext"
                              THEN /\ pc' = next
                                   /\ UNCHANGED << jobs, job, queries, ret >>
                              ELSE IF caches_tags
                                THEN /\ job' = StartJob(rq, FALSE, FALSE)
                                     /\ queries' = 0
                                     /\ ret' = next
                                     /\ pc' = "poll_job"
                                     /\ UNCHANGED jobs
                                ELSE /\ jobs' = jobs \cup {rq}
                                     /\ pc' = next
                                     /\ UNCHANGED << job, queries, ret >>

\* A variant that takes tags left out as an empty list of tags.
mutant_ensure_tags ==
  /\ pc = "ensure_tags"
  /\ IF rule.has_tags
       THEN \E s \in {get_tags_scope(Scope(params, cache, lookups),
                                     tags_cached)} :
              /\ cache' = s.cache
              /\ lookups' = s.lookups
              /\ IF Stopped(s)
                   THEN /\ scope_stops(s)
                        /\ UNCHANGED << changed, calls, jobs, job, queries, ret,
                                        tags_cache >>
                   ELSE /\ _process_tags("deleteTags", rule,
                             _tags_that_should_not_exist(rule, params.tags.tags),
                             "tags_create")
                        /\ tags_cache' = IF caches_tags THEN get_tags(rule)
                                         ELSE tags_cache
                        /\ UNCHANGED << err, msg >>
       ELSE /\ pc' = after_tags
            /\ UNCHANGED << changed, calls, jobs, job, queries, ret, tags_cache,
                            cache, lookups, err, msg >>
  /\ UNCHANGED << remote, vms, runVars, returned, cs, memberVars, rule, result >>

\* ensure_tags up to and including the delete (lines 533-540).
ensure_tags ==
  /\ pc = "ensure_tags"
  /\ IF rule.has_tags /\ params.tags.given
       THEN \E s \in {get_tags_scope(Scope(params, cache, lookups),
                                     tags_cached)} :
              /\ cache' = s.cache
              /\ lookups' = s.lookups
              /\ IF Stopped(s)
                   THEN /\ scope_stops(s)
                        /\ UNCHANGED << changed, calls, jobs, job, queries, ret,
                                        tags_cache >>
                   ELSE /\ _process_tags("deleteTags", rule,
                             _tags_that_should_not_exist(rule, params.tags.tags),
                             "tags_create")
                        /\ tags_cache' = IF caches_tags THEN get_tags(rule)
                                         ELSE tags_cache
                        /\ UNCHANGED << err, msg >>
       ELSE /\ pc' = after_tags
            /\ UNCHANGED << changed, calls, jobs, job, queries, ret, tags_cache,
                            cache, lookups, err, msg >>
  /\ UNCHANGED << remote, vms, runVars, returned, cs, memberVars, rule, result >>

\* The create of ensure_tags (line 541).
ensure_tags_create ==
  /\ pc = "tags_create"
  /\ \E s \in {get_tags_scope(Scope(params, cache, lookups), tags_cached)} :
       /\ cache' = s.cache
       /\ lookups' = s.lookups
       /\ IF Stopped(s)
            THEN /\ scope_stops(s)
                 /\ UNCHANGED << changed, calls, jobs, job, queries, ret,
                                 tags_cache >>
            ELSE /\ _process_tags("createTags", rule,
                      _tags_that_should_exist_or_be_updated(rule,
                                                            params.tags.tags),
                      "tags_refresh")
                 /\ tags_cache' = IF caches_tags THEN get_tags(rule)
                                  ELSE tags_cache
                 /\ UNCHANGED << err, msg >>
  /\ UNCHANGED << remote, vms, runVars, returned, cs, memberVars, rule, result >>

\* A variant of the refresh that keeps self.tags.
mutant_ensure_tags_refresh ==
  /\ pc = "tags_refresh"
  /\ \E s \in {get_tags_scope(Scope(params, cache, lookups), tags_cached)} :
       /\ cache' = s.cache
       /\ lookups' = s.lookups
       /\ IF Stopped(s)
            THEN scope_stops(s) /\ UNCHANGED << rule, tags_cache >>
            ELSE /\ rule' = [rule EXCEPT !.tags = get_tags(rule)]
                 /\ tags_cache' = IF caches_tags THEN get_tags(rule)
                                  ELSE tags_cache
                 /\ pc' = after_tags
                 /\ UNCHANGED << err, msg >>
  /\ UNCHANGED << remoteVars, runVars, returned, cs, memberVars, job, queries,
                  ret, changed, calls, result >>

\* self.tags = None; resource['tags'] = self.get_tags(resource) (line 542).
ensure_tags_refresh ==
  /\ pc = "tags_refresh"
  /\ \E s \in {get_tags_scope(Scope(params, cache, lookups), FALSE)} :
       /\ cache' = s.cache
       /\ lookups' = s.lookups
       /\ IF Stopped(s)
            THEN scope_stops(s) /\ UNCHANGED << rule, tags_cache >>
            ELSE /\ rule' = [rule EXCEPT !.tags = remote.tags[rule.id]]
                 /\ tags_cache' = IF caches_tags THEN remote.tags[rule.id]
                                  ELSE tags_cache
                 /\ pc' = after_tags
                 /\ UNCHANGED << err, msg >>
  /\ UNCHANGED << remoteVars, runVars, returned, cs, memberVars, job, queries,
                  ret, changed, calls, result >>

----------------------------------------------------------------------------
(* cs_loadbalancer_rule: membership reconciliation *)

\* The ids appended by the loop of get_wanted_members_ids (lines 670-672),
\* one per listed machine whose name is wanted.
wanted_members_id_list(wanted_member_names) ==
  LET hit(vm) == vm.name \in Range(wanted_member_names)
      picked == SelectSeq(vms, hit)
  IN  [i \in DOMAIN picked |-> picked[i].id]

\* Line 673: the check that every member was found.
members_found(wanted_member_names) ==
  Len(wanted_member_names) = Len(wanted_members_id_list(wanted_member_names))

get_existing_member_ids(r) == remote.members[r.id]

member_ids_to_remove(wanted, existing) == existing \ wanted
\* A variant that assigns every wanted member, assigned already or not.
mutant_member_ids_to_assign(wanted, existing) == wanted
member_ids_to_assign(wanted, existing) == wanted \ existing

\* present_members up to the two difference sets (lines 688-699).
present_members ==
  /\ pc = "present_members"
  /\ IF ~params.members.given
       THEN /\ pc' = "exit"
            /\ UNCHANGED << err, msg, memberVars, cache, lookups >>
       ELSE \E s \in {get_wanted_members_scope(Scope(params, cache, lookups))} :
         /\ cache' = s.cache
         /\ IF Stopped(s)
              THEN /\ scope_stops(s)
                   /\ lookups' = s.lookups
                   /\ UNCHANGED memberVars
              ELSE IF ~members_found(params.members.names)
                THEN /\ fail_json("ResourceNotFound")
                     /\ lookups' = s.lookups
                     /\ UNCHANGED memberVars
                ELSE LET wanted == Range(wanted_members_id_list(
                                           params.members.names))
                         existing == get_existing_member_ids(rule)
                     IN  /\ lookups' = Append(s.lookups,
                                              "listLoadBalancerRuleInstances")
                         /\ to_remove' = member_ids_to_remove(wanted, existing)
                         /\ to_assign' = member_ids_to_assign(wanted, existing)
                         /\ pc' = "members_assign"
                         /\ UNCHANGED << err, msg >>
  /\ UNCHANGED << remoteVars, runVars, returned, cs, job, queries, ret, rule, changed, calls,
                  tags_cache, result >>

\* A variant that makes the member call without marking the change.
mutant_member_call(operation, ids, next) ==
  IF ids = {}
    THEN /\ pc' = next
         /\ UNCHANGED << changed, calls, jobs, job, queries, ret, err, msg >>
    ELSE /\ changed' = changed
         /\ checked_call([Req(operation) EXCEPT !.id = rule.id, !.vms = ids],
                         FALSE, next)

\* One of the two member calls (lines 701-709 and 711-719).
member_call(operation, ids, next) ==
  IF ids = {}
    THEN /\ pc' = next
         /\ UNCHANGED << changed, calls, jobs, job, queries, ret, err, msg >>
    ELSE /\ changed' = TRUE
         /\ checked_call([Req(operation) EXCEPT !.id = rule.id, !.vms = ids],
                         FALSE, next)

present_members_assign ==
  /\ pc = "members_assign"
  /\ member_call("assignToLoadBalancerRule", to_assign, "members_remove")
  /\ UNCHANGED << remote, vms, runVars, scopeVars, memberVars, rule, tags_cache, result >>

\* The remove call, then rule['members'] and the return (lines 711-721).
present_members_remove ==
  /\ pc = "members_remove"
  /\ member_call("removeFromLoadBalancerRule", to_remove, "exit")
  /\ UNCHANGED << remote, vms, runVars, scopeVars, memberVars, rule, tags_cache, result >>

----------------------------------------------------------------------------
(* cs_loadbalancer_rule: the present / absent driver *)

\* The parameters present_lb_rule asks for, in the order it tests them.
required_params == << "algorithm", "private_port", "public_port" >>

\* Lines 725-732: `if not self.module.params.get(...)`, true of None and
\* of 0 alike (a port that is None is written 0, see argument_spec).
missing_params(p) ==
  {k \in {"algorithm", "private_port", "public_port"} :
     \/ k = "algorithm" /\ p.algorithm = NONE
     \/ k = "private_port" /\ p.private_port = 0
     \/ k = "public_port" /\ p.public_port = 0}

\* ','.join(names) for the names of required_params that are in S.
RECURSIVE join(_, _)
join(names, S) ==
  IF names = << >> THEN ""
  ELSE LET rest == join(Tail(names), S)
       IN  IF Head(names) \notin S THEN rest
           ELSE IF rest = "" THEN Head(names)
           ELSE Head(names) \o "," \o rest

\* Lines 733-734.
missing_message(S) == "missing required arguments: " \o join(required_params, S)

\* A variant of the lookup that forgets the name: the last rule listed on
\* the public ip.
mutant_get_rule(p) ==
  LET m == {r \in remote.rules : r.publicip = p.public_ip}
  IN  IF m = {} THEN None
      ELSE rule_record(remote, CHOOSE r \in m : \A q \in m : q.id <= r.id)

\* get_rule: the first rule listed for the name on the public ip.
get_rule(p) ==
  LET m == {r \in remote.rules : r.name = p.name /\ r.publicip = p.public_ip}
  IN  IF m = {} THEN None ELSE rule_record(remote, CHOOSE r \in m : TRUE)

\* present_lb_rule down to the lookup (lines 724-741).
present_lb_rule ==
  /\ pc = "start" /\ params.module = "lb" /\ params.state = "present"
  /\ IF missing_params(params) # {}
       THEN /\ fail_with("ConfigError",
                          missing_message(missing_params(params)))
            /\ UNCHANGED << rule, cache, lookups >>
       ELSE \E s \in {_get_common_args(Scope(params, cache, lookups),
                                       remote.ips)} :
              /\ cache' = s.cache
              /\ IF Stopped(s)
                   THEN /\ scope_stops(s)
                        /\ lookups' = s.lookups
                        /\ UNCHANGED rule
                   ELSE /\ lookups' = Append(s.lookups, "listLoadBalancerRules")
                        /\ rule' = get_rule(params)
                        /\ pc' = IF rule'.id # 0 THEN "update" ELSE "create"
                        /\ UNCHANGED << err, msg >>
  /\ UNCHANGED << remoteVars, runVars, returned, cs, memberVars, job, queries, ret, changed, calls,
                  tags_cache, result >>

\* A variant of the create arguments that leaves the algorithm out.
mutant_create_args(p) ==
  [Req("createLoadBalancerRule") EXCEPT
     !.name = p.name, !.publicip = p.public_ip,
     !.publicport = p.public_port, !.privateport = p.private_port]

create_args(p) ==
  [Req("createLoadBalancerRule") EXCEPT
     !.name = p.name, !.publicip = p.public_ip, !.algorithm = p.algorithm,
     !.publicport = p.public_port, !.privateport = p.private_port]

\* A variant of the create that marks the change only when it is made.
mutant_create_lb_rule ==
  /\ pc = "create"
  /\ IF params.check_mode
       THEN /\ pc' = after_rule(rule)
            /\ UNCHANGED << changed, calls, jobs, job, queries, ret, err, msg >>
       ELSE /\ changed' = TRUE
            /\ checked_call(create_args(params), TRUE, "after_rule")
  /\ UNCHANGED << remote, vms, runVars, scopeVars, memberVars, rule, tags_cache, result >>

\* _create_lb_rule (lines 749-765): live, it calls _get_common_args once
\* more before the create.
_create_lb_rule ==
  /\ pc = "create"
  /\ changed' = TRUE
  /\ IF params.check_mode
       THEN /\ pc' = after_rule(rule)
            /\ UNCHANGED << calls, jobs, job, queries, ret, err, msg, cache,
                            lookups >>
       ELSE \E s \in {_get_common_args(Scope(params, cache, lookups),
                                       remote.ips)} :
              /\ cache' = s.cache
              /\ lookups' = s.lookups
              /\ IF Stopped(s)
                   THEN /\ scope_stops(s)
                        /\ UNCHANGED << calls, jobs, job, queries, ret >>
                   ELSE checked_call(create_args(params), TRUE, "after_rule")
  /\ UNCHANGED << remote, vms, runVars, returned, cs, memberVars, rule, tags_cache, result >>

\* A variant of the update arguments that carries the ports as well.
mutant_update_args(p, r) ==
  [id |-> StrV(ToString(r.id)), algorithm |-> StrV(p.algorithm),
   description |-> NoneV, publicport |-> IntV(p.public_port),
   privateport |-> IntV(p.private_port)]

\* The dicts _update_lb_rule hands to has_changed (lines 769-773).
update_args(p, r) ==
  [id |-> StrV(ToString(r.id)), algorithm |-> StrV(p.algorithm),
   description |-> NoneV]

rule_dict(r) ==
  [id |-> StrV(ToString(r.id)), name |-> StrV(r.name),
   algorithm |-> StrV(r.algorithm), publicport |-> StrV(ToString(r.publicport)),
   privateport |-> StrV(ToString(r.privateport))]

\* updateLoadBalancerRule(**args) (line 776): the call carries the keys of
\* args.
update_call(p, r) ==
  LET args == update_args(p, r)
  IN  [Req("updateLoadBalancerRule") EXCEPT
         !.id = r.id, !.algorithm = p.algorithm,
         !.publicport = IF "publicport" \in DOMAIN args
                          THEN p.public_port ELSE 0,
         !.privateport = IF "privateport" \in DOMAIN args
                           THEN p.private_port ELSE 0]

_update_lb_rule ==
  /\ pc = "update"
  /\ \E outcome \in has_changed(update_args(params, rule), rule_dict(rule), {}) :
       CASE outcome = "raise" ->
              /\ pc' = "crashed"
              /\ UNCHANGED << changed, calls, jobs, job, queries, ret, err, msg >>
         [] outcome = "false" ->
              /\ pc' = after_rule(rule)
              /\ UNCHANGED << changed, calls, jobs, job, queries, ret, err, msg >>
         [] outcome = "true" ->
              /\ changed' = TRUE
              /\ IF params.check_mode
                   THEN /\ pc' = after_rule(rule)
                        /\ UNCHANGED << calls, jobs, job, queries, ret, err, msg >>
                   ELSE checked_call(update_call(params, rule), TRUE,
                                     "after_rule")
  /\ UNCHANGED << remote, vms, runVars, scopeVars, memberVars, rule, tags_cache, result >>

absent_lb_rule ==
  /\ pc = "start" /\ params.module = "lb" /\ params.state = "absent"
  /\ \E s \in {_get_common_args(Scope(params, cache, lookups), remote.ips)} :
       /\ cache' = s.cache
       /\ IF Stopped(s)
            THEN /\ scope_stops(s)
                 /\ lookups' = s.lookups
                 /\ UNCHANGED << rule, changed, calls, jobs, job, queries, ret >>
            ELSE /\ lookups' = Append(s.lookups, "listLoadBalancerRules")
                 /\ rule' = get_rule(params)
                 /\ changed' = (changed \/ rule'.id # 0)
                 /\ IF rule'.id # 0 /\ ~params.check_mode
                      THEN checked_call([Req("deleteLoadBalancerRule") EXCEPT
                                           !.id = rule'.id], FALSE, "exit")
                      ELSE /\ pc' = "exit"
                           /\ UNCHANGED << calls, jobs, job, queries, ret, err, msg >>
  /\ UNCHANGED << remote, vms, runVars, returned, cs, memberVars, tags_cache, result >>

----------------------------------------------------------------------------
(* cs_template *)

\* get_template (lines 872-897): by name, or by checksum alone when one is
\* given. Listings are in id order.
first_of(S) == CHOOSE t \in S : \A u \in S : t.id <= u.id

get_template(p) ==
  LET m == IF p.checksum = NONE
             THEN {t \in remote.templates : t.name = p.name}
             ELSE {t \in remote.templates : t.checksum = p.checksum}
  IN  IF m = {} THEN None ELSE resource_of_template(first_of(m))

\* _get_args and get_os_type (lines 767-784, 560-574): the error they end
\* with, or NONE.
get_args_error(p) ==
  IF p.os_type = NONE THEN "ConfigError"
  ELSE IF p.os_type \notin OsTypes THEN "ResourceNotFound"
  ELSE NONE

\* main, state=present without url and vm (line 985).
template_source_missing ==
  /\ pc = "start" /\ params.module = "template" /\ params.state = "present"
  /\ params.source = NONE
  /\ fail_json("ConfigError")
  /\ UNCHANGED << remoteVars, runVars, scopeVars, memberVars, job, queries, ret, rule, changed,
                  calls, tags_cache, result >>

create_template ==
  /\ pc = "start" /\ params.module = "template" /\ params.state = "present"
  /\ params.source = "vm"
  /\ rule' = get_template(params)
  /\ IF rule'.id # 0
       THEN /\ pc' = "exit"
            /\ UNCHANGED << changed, calls, jobs, job, queries, ret, err, msg >>
       ELSE /\ changed' = TRUE
            /\ IF get_args_error(params) # NONE
                 THEN /\ fail_json(get_args_error(params))
                      /\ UNCHANGED << calls, jobs, job, queries, ret >>
                 ELSE IF params.check_mode
                   THEN /\ pc' = "exit"
                        /\ UNCHANGED << calls, jobs, job, queries, ret, err, msg >>
                   ELSE checked_call([Req("createTemplate") EXCEPT
                                        !.name = params.name], TRUE, "exit")
  /\ UNCHANGED << remote, vms, runVars, scopeVars, memberVars, tags_cache, result >>

\* registerTemplate answers at once: there is no job (lines 864-868).
register_template ==
  /\ pc = "start" /\ params.module = "template" /\ params.state = "present"
  /\ params.source = "url"
  /\ LET template == get_template(params)
         rq == [Req("registerTemplate") EXCEPT !.name = params.name]
     IN  IF template.id # 0
           THEN /\ rule' = template
                /\ pc' = "exit"
                /\ UNCHANGED << changed, calls, remote, err, msg >>
           ELSE /\ changed' = TRUE
                /\ IF get_args_error(params) # NONE
                     THEN /\ fail_json(get_args_error(params))
                          /\ UNCHANGED << calls, remote, rule >>
                     ELSE IF params.check_mode
                       THEN /\ pc' = "exit"
                            /\ UNCHANGED << calls, remote, rule, err, msg >>
                       ELSE /\ issue(rq)
                            /\ \E ok \in BOOLEAN :
                                 IF ok
                                   THEN /\ remote' \in job_outcomes(remote, rq)
                                        /\ rule' = resource_of_template(Tpl1)
                                        /\ pc' = "exit"
                                        /\ UNCHANGED << err, msg >>
                                   ELSE /\ fail_json("RemoteOperationError")
                                        /\ UNCHANGED << remote, rule >>
  /\ UNCHANGED << vms, jobs, runVars, scopeVars, memberVars, job, queries, ret, tags_cache, result >>

remove_template ==
  /\ pc = "start" /\ params.module = "template" /\ params.state = "absent"
  /\ rule' = get_template(params)
  /\ IF rule'.id # 0
       THEN /\ changed' = TRUE
            /\ IF params.check_mode
                 THEN /\ pc' = "exit"
                      /\ UNCHANGED << calls, jobs, job, queries, ret, err, msg >>
                 ELSE checked_call([Req("deleteTemplate") EXCEPT
                                      !.id = rule'.id], FALSE, "exit")
       ELSE /\ pc' = "exit"
            /\ UNCHANGED << changed, calls, jobs, job, queries, ret, err, msg >>
  /\ UNCHANGED << remote, vms, runVars, scopeVars, memberVars, tags_cache, result >>

----------------------------------------------------------------------------
(* cs_ip_address *)

\* A variant of the associate that is content with an address that is
\* associated already.
mutant_associate_ip_address ==
  /\ pc = "start" /\ params.module = "ip" /\ params.state = "present"
  /\ IF remote.ips # {}
       THEN /\ pc' = "exit"
            /\ UNCHANGED << changed, calls, jobs, job, queries, ret, err, msg >>
       ELSE /\ changed' = TRUE
            /\ IF params.check_mode
                 THEN /\ pc' = "exit"
                      /\ UNCHANGED << calls, jobs, job, queries, ret, err, msg >>
                 ELSE checked_call(Req("associateIpAddress"), TRUE, "exit")
  /\ UNCHANGED << remote, vms, runVars, scopeVars, memberVars, rule, tags_cache, result >>

\* associate_ip_address (lines 578-596)
associate_ip_address ==
  /\ pc = "start" /\ params.module = "ip" /\ params.state = "present"
  /\ changed' = TRUE
  /\ IF params.check_mode
       THEN /\ pc' = "exit"
            /\ UNCHANGED << calls, jobs, job, queries, ret, err, msg >>
       ELSE checked_call(Req("associateIpAddress"), TRUE, "exit")
  /\ UNCHANGED << remote, vms, runVars, scopeVars, memberVars, rule, tags_cache, result >>

\* get_ip_address of cs_ip_address (lines 558-575): what it returns with no
\* key: the listed address, or _get_by_key(None, None), the empty dict.
get_ip_address(p) ==
  LET m == {ip \in remote.ips : ip.ipaddress = p.ip_address}
  IN  IF m = {} THEN [found |-> FALSE, ip |-> None]
      ELSE [found |-> TRUE, ip |-> resource_of_ip(first_of(m))]

\* A variant of the disassociate that does not look at isstaticnat.
mutant_disassociate_ip_address ==
  /\ pc = "start" /\ params.module = "ip" /\ params.state = "absent"
  /\ IF params.ip_address = NONE
       THEN /\ fail_json("ConfigError")
            /\ UNCHANGED << rule, changed, calls, jobs, job, queries, ret >>
       ELSE LET got == get_ip_address(params)
            IN  IF ~got.found
                  THEN /\ pc' = "crashed"
                       /\ UNCHANGED << rule, changed, calls, jobs, job, queries, ret, err, msg >>
                  ELSE /\ rule' = got.ip
                       /\ changed' = TRUE
                       /\ IF params.check_mode
                            THEN /\ pc' = "exit"
                                 /\ UNCHANGED << calls, jobs, job, queries, ret, err, msg >>
                            ELSE checked_call(
                                   [Req("disassociateIpAddress") EXCEPT
                                      !.id = got.ip.id], FALSE, "exit")
  /\ UNCHANGED << remote, vms, runVars, scopeVars, memberVars, tags_cache, result >>

disassociate_ip_address ==
  /\ pc = "start" /\ params.module = "ip" /\ params.state = "absent"
  /\ IF params.ip_address = NONE
       THEN /\ fail_json("ConfigError")
            /\ UNCHANGED << rule, changed, calls, jobs, job, queries, ret >>
       ELSE LET got == get_ip_address(params)
            IN  IF ~got.found
                  \* {} is not None; {}['isstaticnat'] raises KeyError
                  THEN /\ pc' = "crashed"
                       /\ UNCHANGED << rule, changed, calls, jobs, job, queries, ret, err, msg >>
                  ELSE IF got.ip.isstaticnat
                    THEN /\ fail_json("StateConflict")
                         /\ UNCHANGED << rule, changed, calls, jobs, job, queries, ret >>
                    ELSE /\ rule' = got.ip
                         /\ changed' = TRUE
                         /\ IF params.check_mode
                              THEN /\ pc' = "exit"
                                   /\ UNCHANGED << calls, jobs, job, queries, ret, err, msg >>
                              ELSE checked_call(
                                     [Req("disassociateIpAddress") EXCEPT
                                        !.id = got.ip.id], FALSE, "exit")
  /\ UNCHANGED << remote, vms, runVars, scopeVars, memberVars, tags_cache, result >>

----------------------------------------------------------------------------
(* The inputs of a run *)

Tags(S) == [given |-> TRUE, tags |-> S]
Members(names) == [given |-> TRUE, names |-> names]

BaseParams ==
  [module |-> "lb", entry |-> "main", state |-> "present",
   check_mode |-> FALSE, poll_async |-> TRUE, name |-> RuleName,
   public_ip |-> PublicIp, algorithm |-> "source", public_port |-> 80,
   private_port |-> 8080, tags |-> NoTags, members |-> NoMembers,
   ip_address |-> NONE, source |-> NONE, checksum |-> NONE, os_type |-> NONE,
   supplied |-> {"algorithm", "private_port", "public_port"},
   wanted |-> Unnamed, cloud |-> "full"]

\* AnsibleModule's defaults (lines 816-818) for the parameters the playbook
\* leaves out: algorithm is 'source', a port is None (written 0).
argument_spec(p, supplied) ==
  [p EXCEPT !.supplied = supplied,
            !.algorithm = IF "algorithm" \in supplied THEN @ ELSE "source",
            !.private_port = IF "private_port" \in supplied THEN @ ELSE 0,
            !.public_port = IF "public_port" \in supplied THEN @ ELSE 0]

\* Desired tags and members of the driver runs.
DriverTags == {NoTags, Tags({}), Tags({T1})}
DriverMembers == {NoMembers, Members(<<"web01">>), Members(<<"web01", "ghost">>)}

LbPresentParams ==
  {[BaseParams EXCEPT !.check_mode = c, !.poll_async = a, !.algorithm = g,
                      !.tags = t, !.members = m] :
     c \in BOOLEAN, a \in BOOLEAN, g \in Algorithms, t \in DriverTags,
     m \in DriverMembers}

\* Present runs in which a required parameter is left out, null or 0, or
\* the public ip is not listed.
LbRejectedParams ==
  {argument_spec(
     [BaseParams EXCEPT !.check_mode = c, !.algorithm = g, !.public_port = pub,
                        !.private_port = priv, !.public_ip = ip], S) :
     c \in BOOLEAN, g \in {NONE, "source"}, pub \in {0, 80},
     priv \in {0, 8080}, ip \in {PublicIp, UnknownIp},
     S \in SUBSET {"algorithm", "private_port", "public_port"}}
  \ LbPresentParams

\* Present runs that ask for other ports than the rule on the cloud has.
MovedPorts == {<< 8000, 8080 >>, << 80, 9090 >>}

LbMovedParams ==
  {[BaseParams EXCEPT !.check_mode = c, !.algorithm = g,
                      !.public_port = ports[1], !.private_port = ports[2]] :
     c \in BOOLEAN, g \in Algorithms, ports \in MovedPorts}

\* Scopes of the load-balancer runs: every kind named and listed, an
\* account without its domain, and one kind that the cloud does not list.
ScopedWanted ==
  {[Unnamed EXCEPT !.domain = "ops", !.account = "admin", !.project = "Web",
                   !.zone = "Zone2"],
   [Unnamed EXCEPT !.account = "admin"],
   [Unnamed EXCEPT !.domain = "nodomain"],
   [Unnamed EXCEPT !.domain = "ops", !.account = "ghost"],
   [Unnamed EXCEPT !.project = "noproject"],
   [Unnamed EXCEPT !.zone = "nowhere"]}

\* Runs with a scope, on a cloud that lists it and on one that lists
\* nothing.
LbScopedParams ==
  {[BaseParams EXCEPT !.state = st, !.check_mode = c, !.wanted = w,
                      !.cloud = cl, !.tags = t, !.members = m] :
     st \in {"present", "absent"}, c \in BOOLEAN,
     w \in ScopedWanted \cup {Unnamed}, cl \in {"full", "empty"},
     t \in {NoTags, Tags({T1})}, m \in {NoMembers, Members(<< "web01" >>)}}

LbAbsentParams ==
  {[BaseParams EXCEPT !.state = "absent", !.check_mode = c, !.poll_async = a,
                      !.public_ip = ip] :
     c \in BOOLEAN, a \in BOOLEAN, ip \in {PublicIp, UnknownIp}}

TemplateParams ==
  {[BaseParams EXCEPT !.module = "template", !.name = TemplateName,
                      !.state = st, !.check_mode = c, !.poll_async = a,
                      !.source = src, !.checksum = sum, !.os_type = os] :
     st \in {"present", "absent"}, c \in BOOLEAN, a \in BOOLEAN,
     src \in {NONE, "url", "vm"}, sum \in {NONE, "abc"},
     os \in {NONE, "centos", "beos"}}

IpParams ==
  {[BaseParams EXCEPT !.module = "ip", !.state = st, !.check_mode = c,
                      !.poll_async = a, !.ip_address = ip] :
     st \in {"present", "absent"}, c \in BOOLEAN, a \in BOOLEAN,
     ip \in {NONE} \cup IpPool}

DriverParams ==
  LbPresentParams \cup LbRejectedParams \cup LbMovedParams
  \cup LbAbsentParams \cup LbScopedParams
  \cup TemplateParams \cup IpParams

\* The listing of virtual machines the driver runs see.
DriverVms ==
  << [id |-> 1, name |-> "web01"], [id |-> 2, name |-> "web02"],
     [id |-> 3, name |-> "web03"] >>

EmptyRemote ==
  [rules |-> {OtherRule}, tags |-> [i \in ResourceIds |-> {}],
   members |-> [i \in ResourceIds |-> {}], templates |-> {Tpl2},
   ips |-> {IpAddress(PublicIp, FALSE)}]

\* The remote states a run of the module can start from.
InitialRemotes(module) ==
  CASE module = "lb" ->
         {EmptyRemote} \cup
         {[EmptyRemote EXCEPT
             !.rules = @ \cup {Rule(RuleId, RuleName, PublicIp, g, 80, 8080)},
             !.tags[RuleId] = t, !.members[RuleId] = m] :
            g \in Algorithms, t \in {{}, {T1}, {T2}}, m \in {{}, {1}, {2}}}
    [] module = "template" ->
         {EmptyRemote, [EmptyRemote EXCEPT !.templates = @ \cup {Tpl1}]}
    [] module = "ip" ->
         {[EmptyRemote EXCEPT !.ips = S] :
            S \in {{}, {IpAddress(PublicIp, FALSE)}, {IpAddress(PublicIp, TRUE)},
                   {IpAddress(PublicIp, FALSE), IpAddress("5.6.7.8", FALSE)}}}

\* No previous run; start is the cloud as the current run found it.
NoPrev == [rerun |-> "no", pc |-> NONE, changed |-> FALSE, ops |-> {},
           start |-> EmptyRemote]

\* What a run starts with: the state after AnsibleCloudStack.__init__.
fresh_run ==
  /\ jobs = {}
  /\ job = NoJob
  /\ ret = NONE
  /\ pc = "start"
  /\ err = NONE
  /\ msg = NONE
  /\ queries = 0
  /\ cache = NoCache
  /\ lookups = << >>
  /\ returned = << >>
  /\ cs = NoSession
  /\ rule = None
  /\ changed = FALSE
  /\ calls = << >>
  /\ to_assign = {}
  /\ to_remove = {}
  /\ tags_cache = {}
  /\ result = [changed |-> FALSE, tags |-> {}]
  /\ run = 1
  /\ prev = [NoPrev EXCEPT !.start = remote]

Init ==
  /\ params \in DriverParams
  /\ remote \in InitialRemotes(params.module)
  /\ vms = DriverVms
  /\ fresh_run

\* The module is run again once the cloud has finished the jobs of the last
\* run: with the same inputs on the cloud as that run left it, or, after a
\* check-mode run, with the same inputs live on the cloud as the check-mode
\* run found it.
new_run ==
  /\ Ended
  /\ jobs = {}
  /\ run < MaxRuns
  /\ \E how \in {"same", "live"} :
       /\ how = "live" => params.check_mode
       /\ params' = IF how = "live" THEN [params EXCEPT !.check_mode = FALSE]
                    ELSE params
       /\ remote' = IF how = "live" THEN prev.start ELSE remote
       /\ prev' = [rerun |-> how, pc |-> pc, changed |-> result.changed,
                   ops |-> {calls[i].op : i \in DOMAIN calls},
                   start |-> remote']
  /\ run' = run + 1
  /\ pc' = IF params.entry = "main" THEN "start" ELSE params.entry
  /\ job' = NoJob
  /\ ret' = NONE
  /\ err' = NONE
  /\ msg' = NONE
  /\ queries' = 0
  /\ cache' = NoCache
  /\ lookups' = << >>
  /\ returned' = << >>
  /\ cs' = NoSession
  /\ rule' = IF params.entry = "main" THEN None ELSE rule
  /\ changed' = FALSE
  /\ calls' = << >>
  /\ to_assign' = {}
  /\ to_remove' = {}
  /\ tags_cache' = {}
  /\ result' = [changed |-> FALSE, tags |-> {}]
  /\ UNCHANGED << vms, jobs >>

Next ==
  \/ present_lb_rule
  \/ _create_lb_rule
  \/ _update_lb_rule
  \/ absent_lb_rule
  \/ ensure_tags
  \/ ensure_tags_create
  \/ ensure_tags_refresh
  \/ present_members
  \/ present_members_assign
  \/ present_members_remove
  \/ template_source_missing
  \/ create_template
  \/ register_template
  \/ remove_template
  \/ associate_ip_address
  \/ disassociate_ip_address
  \/ poll_job
  \/ poll_sleep
  \/ remote_finish_polled
  \/ remote_finish_unpolled
  \/ main_exit
  \/ new_run

Spec == Init /\ [][Next]_vars

----------------------------------------------------------------------------
(* ensure_tags on its own: every desired and observed tag set, in each of
   the three copies of the base class *)

TagsParams ==
  {[BaseParams EXCEPT !.module = m, !.entry = "ensure_tags",
                      !.check_mode = c, !.tags = t] :
     m \in {"lb", "template", "ip"}, c \in BOOLEAN,
     t \in {NoTags} \cup {Tags(S) : S \in SUBSET TagUniverse}}

InitTags ==
  /\ params \in TagsParams
  /\ \E observed \in SUBSET TagUniverse, has_tags \in BOOLEAN :
       /\ remote = [EmptyRemote EXCEPT
                      !.rules = @ \cup {Rule(RuleId, RuleName, PublicIp,
                                             "source", 80, 8080)},
                      !.tags[RuleId] = observed]
       /\ rule = [rule_record(remote, CHOOSE r \in remote.rules : r.id = RuleId)
                    EXCEPT !.has_tags = has_tags]
  /\ vms = DriverVms
  /\ jobs = {}
  /\ job = NoJob
  /\ ret = NONE
  /\ pc = "ensure_tags"
  /\ err = NONE
  /\ msg = NONE
  /\ queries = 0
  /\ cache = NoCache
  /\ lookups = << >>
  /\ returned = << >>
  /\ cs = NoSession
  /\ changed = FALSE
  /\ calls = << >>
  /\ to_assign = {}
  /\ to_remove = {}
  /\ tags_cache = {}
  /\ result = [changed |-> FALSE, tags |-> {}]
  /\ run = 1
  /\ prev = [NoPrev EXCEPT !.start = remote]

NextTags ==
  \/ ensure_tags
  \/ ensure_tags_create
  \/ ensure_tags_refresh
  \/ poll_job
  \/ poll_sleep
  \/ remote_finish_polled
  \/ remote_finish_unpolled
  \/ main_exit
  \/ new_run

SpecTags == InitTags /\ [][NextTags]_vars

----------------------------------------------------------------------------
(* poll_job on its own: a record with or without a jobid, with or without
   a result key asked for, and every answer the status query can give *)

\* What a jobresult holds under the key asked for.
SubObject == [None EXCEPT !.id = RuleId, !.name = RuleName]

PollParams ==
  {[BaseParams EXCEPT !.module = m, !.entry = "poll_job"] :
     m \in {"lb", "template", "ip"}}

InitPoll ==
  /\ params \in PollParams
  /\ remote = EmptyRemote
  /\ vms = DriverVms
  /\ jobs = {}
  /\ \E jobid \in BOOLEAN, key \in BOOLEAN :
       job = [NoJob EXCEPT !.req = Req("asyncJob"), !.jobid = jobid,
                           !.key = key, !.assign = TRUE,
                           !.status = IF jobid THEN "pending" ELSE "none"]
  /\ ret = "exit"
  /\ pc = "poll_job"
  /\ err = NONE
  /\ msg = NONE
  /\ queries = 0
  /\ cache = NoCache
  /\ lookups = << >>
  /\ returned = << >>
  /\ cs = NoSession
  /\ rule = None
  /\ changed = FALSE
  /\ calls = << >>
  /\ to_assign = {}
  /\ to_remove = {}
  /\ tags_cache = {}
  /\ result = [changed |-> FALSE, tags |-> {}]
  /\ run = 1
  /\ prev = [NoPrev EXCEPT !.start = remote]

\* The job reaches its terminal status: from now on the status query
\* answers with a result, with an error text, or with neither.
job_answers ==
  /\ job.status = "pending"
  /\ \/ \E haskey \in BOOLEAN :
          job' = [job EXCEPT !.status = "ok", !.haskey = haskey,
                             !.res = IF haskey THEN SubObject ELSE None]
     \/ \E text \in ErrorTexts :
          job' = [job EXCEPT !.status = "error", !.errortext = text]
     \/ job' = [job EXCEPT !.status = "noresult"]
  /\ UNCHANGED << remoteVars, runVars, scopeVars, memberVars, ret, pc, err,
                  msg, rule, changed, calls, tags_cache, result, queries >>

NextPoll ==
  \/ poll_job
  \/ poll_sleep
  \/ job_answers
  \/ main_exit

SpecPoll == InitPoll /\ [][NextPoll]_vars

\* The loop of poll_job runs on: neither the query nor the sleep blocks
\* for ever.
SpecPollFair == SpecPoll /\ WF_vars(poll_job) /\ WF_vars(poll_sleep)

----------------------------------------------------------------------------
(* Scope resolution on its own: a harness that calls the getters one
   after the other *)

MaxResolves == 2

\* For each kind: none, a name, the name in other letters, an id, the id
\* in other letters, a name of nothing.
Identifiers ==
  [domain |-> {NONE, "ops", "OPS", "/ops", "ROOT/ops", "nodomain"},
   account |-> {NONE, "admin", "ghost"},
   project |-> {NONE, "Web", "web", "p-1", "P-1", "noproject"},
   zone |-> {NONE, "Zone2", "zone2", "z-2", "Z-2", "nowhere"},
   vm |-> {NONE, "web01", "WEB01", "vm-1", "novm"},
   os_type |-> {NONE, "Debian", "debian", "os-2", "OS-2", "noos"},
   hypervisor |-> {NONE, "VMware", "VMWARE", "Xen"}]

\* Runs that differ from an all-named or an all-unnamed run in one kind.
Wanted ==
  {[base EXCEPT ![k] = v] :
     base \in {Named, Unnamed},
     k \in DOMAIN Named, v \in UNION {Identifiers[kk] : kk \in DOMAIN Named}}

ScopeParams ==
  {[wanted |-> w, cloud |-> c] @@
     [BaseParams EXCEPT !.module = m, !.entry = "scope"] :
     w \in {w \in Wanted : \A k \in DOMAIN Named : w[k] \in Identifiers[k]},
     m \in {"lb", "template"}, c \in {"full", "empty"}}

InitScope ==
  /\ params \in ScopeParams
  /\ remote = EmptyRemote
  /\ vms = DriverVms
  /\ jobs = {}
  /\ job = NoJob
  /\ ret = NONE
  /\ pc = "scope"
  /\ err = NONE
  /\ msg = NONE
  /\ queries = 0
  /\ cache = NoCache
  /\ lookups = << >>
  /\ returned = << >>
  /\ cs = NoSession
  /\ rule = None
  /\ changed = FALSE
  /\ calls = << >>
  /\ to_assign = {}
  /\ to_remove = {}
  /\ tags_cache = {}
  /\ result = [changed |-> FALSE, tags |-> {}]
  /\ run = 1
  /\ prev = [NoPrev EXCEPT !.start = remote]

Keys == {NONE, "id"}

\* One call of a getter: the caches and the listings are what it left, and
\* what it returned is kept unless it ended the run.
resolve(kind, key, s) ==
  /\ pc = "scope"
  /\ Len(returned) < MaxResolves
  /\ cache' = s.cache
  /\ lookups' = s.lookups
  /\ IF s.crashed
       THEN pc' = "crashed" /\ UNCHANGED << err, msg, returned >>
       ELSE IF s.err # NONE
         THEN fail_with(s.err, s.msg) /\ UNCHANGED returned
         ELSE /\ returned' = Append(returned, [kind |-> kind, key |-> key,
                                               ent |-> s.ent,
                                               field |-> s.field])
              /\ UNCHANGED << pc, err, msg >>
  /\ UNCHANGED << remoteVars, runVars, memberVars, job, queries, ret, rule,
                  changed, calls, tags_cache, result, cs >>

resolve_domain ==
  /\ pc = "scope"
  /\ \E key \in Keys :
       \E s \in {get_domain(Scope(params, cache, lookups), key)} :
         resolve("domain", key, s)

resolve_account ==
  /\ pc = "scope"
  /\ \E key \in Keys :
       \E s \in {get_account(Scope(params, cache, lookups), key)} :
         resolve("account", key, s)

resolve_project ==
  /\ pc = "scope"
  /\ \E key \in Keys :
       \E s \in {get_project(Scope(params, cache, lookups), key)} :
         resolve("project", key, s)

resolve_zone ==
  /\ pc = "scope"
  /\ \E key \in Keys :
       \E s \in {get_zone(Scope(params, cache, lookups), key)} :
         resolve("zone", key, s)

resolve_vm ==
  /\ pc = "scope"
  /\ \E key \in Keys :
       \E s \in {get_vm(Scope(params, cache, lookups), key)} :
         resolve("vm", key, s)

resolve_os_type ==
  /\ pc = "scope"
  /\ \E key \in Keys :
       \E s \in {get_os_type(Scope(params, cache, lookups), key)} :
         resolve("os_type", key, s)

resolve_hypervisor ==
  /\ pc = "scope"
  /\ \E s \in {get_hypervisor(Scope(params, cache, lookups))} :
       resolve("hypervisor", NONE, s)

resolve_capabilities ==
  /\ pc = "scope"
  /\ \E key \in {NONE, "name"} :
       \E s \in {get_capabilities(Scope(params, cache, lookups), key)} :
         resolve("capabilities", key, s)

NextScope ==
  \/ resolve_domain
  \/ resolve_account
  \/ resolve_project
  \/ resolve_zone
  \/ resolve_vm
  \/ resolve_os_type
  \/ resolve_hypervisor
  \/ resolve_capabilities

SpecScope == InitScope /\ [][NextScope]_vars

----------------------------------------------------------------------------
(* The connection: AnsibleModule's check of the credentials and _connect
   (lines 262-279, 836-839) *)

Credentials == {"api_key", "api_secret", "api_url"}

ConnectParams ==
  {[api_key |-> k, api_secret |-> x, api_url |-> u, api_region |-> g,
    api_http_method |-> h] @@
     [BaseParams EXCEPT !.module = m, !.entry = "connect", !.state = st] :
     k \in {NONE, "key"}, x \in {NONE, "secret"},
     u \in {NONE, "https://cloud/api"}, g \in {"cloudstack", "staging"},
     h \in {"get", "post"}, m \in {"lb", "template", "ip"},
     st \in {"present", "absent"}}

InitConnect ==
  /\ params \in ConnectParams
  /\ remote = EmptyRemote
  /\ vms = DriverVms
  /\ jobs = {}
  /\ job = NoJob
  /\ ret = NONE
  /\ pc = "module"
  /\ err = NONE
  /\ msg = NONE
  /\ queries = 0
  /\ cache = NoCache
  /\ lookups = << >>
  /\ returned = << >>
  /\ cs = NoSession
  /\ rule = None
  /\ changed = FALSE
  /\ calls = << >>
  /\ to_assign = {}
  /\ to_remove = {}
  /\ tags_cache = {}
  /\ result = [changed |-> FALSE, tags |-> {}]
  /\ run = 1
  /\ prev = [NoPrev EXCEPT !.start = remote]

\* module.params.get(name): None for a name that is no parameter.
params_get(p, name) == IF name \in DOMAIN p THEN p[name] ELSE NONE

\* AnsibleModule(required_together=[api_key, api_secret, api_url]): some of
\* the three without the others is refused.
AnsibleModule ==
  /\ pc = "module"
  /\ LET given == {c \in Credentials : params[c] # NONE}
     IN  IF given # {} /\ given # Credentials
           THEN fail_with("ConfigError", "parameters are required together")
           ELSE pc' = "connect" /\ UNCHANGED << err, msg >>
  /\ UNCHANGED << remoteVars, runVars, scopeVars, memberVars, job, queries,
                  ret, rule, changed, calls, tags_cache, result >>

\* _connect (lines 262-279): the secret is looked up as 'secret_key'.
_connect ==
  /\ pc = "connect"
  /\ LET api_key == params_get(params, "api_key")
         api_secret == params_get(params, "secret_key")
         api_url == params_get(params, "api_url")
     IN  IF api_key # NONE /\ api_secret # NONE /\ api_url # NONE
           THEN /\ cs' = [NoSession EXCEPT !.via = "explicit",
                                           !.endpoint = api_url,
                                           !.key = api_key,
                                           !.secret = api_secret]
                /\ lookups' = lookups
           ELSE /\ cs' = [NoSession EXCEPT
                            !.via = "profile",
                            !.region = params_get(params, "api_region")]
                /\ lookups' = Append(lookups, "read_config")
  /\ pc' = "exit"
  /\ UNCHANGED << remoteVars, runVars, memberVars, job, queries, ret, rule,
                  changed, calls, tags_cache, result, err, msg, cache,
                  returned >>

NextConnect ==
  \/ AnsibleModule
  \/ _connect
  \/ main_exit

SpecConnect == InitConnect /\ [][NextConnect]_vars

----------------------------------------------------------------------------
(* has_changed on its own: every desired and every current dict over two
   fields, called the way _update_lb_rule calls it *)

Fields == {"algorithm", "publicport"}

WantValues == {NoneV, StrV(""), StrV("source"), IntV(80)}

CurrentValues ==
  {NoneV, StrV(""), StrV("source"), StrV("roundrobin"), StrV("80"),
   StrV("080"), IntV(80), IntV(8080)}

\* The dicts over some of the fields.
Dicts(values) == UNION {[ks -> values] : ks \in SUBSET Fields}

DetectParams ==
  {[want_dict |-> w, current_dict |-> c, only_keys |-> o] @@
     [BaseParams EXCEPT !.entry = "has_changed"] :
     w \in Dicts(WantValues), c \in Dicts(CurrentValues),
     o \in {{}, {"algorithm"}}}

InitDetect ==
  /\ params \in DetectParams
  /\ remote = EmptyRemote
  /\ vms = DriverVms
  /\ jobs = {}
  /\ job = NoJob
  /\ ret = NONE
  /\ pc = "has_changed"
  /\ err = NONE
  /\ msg = NONE
  /\ queries = 0
  /\ cache = NoCache
  /\ lookups = << >>
  /\ returned = << >>
  /\ cs = NoSession
  /\ rule = None
  /\ changed = FALSE
  /\ calls = << >>
  /\ to_assign = {}
  /\ to_remove = {}
  /\ tags_cache = {}
  /\ result = [changed |-> FALSE, tags |-> {}]
  /\ run = 1
  /\ prev = [NoPrev EXCEPT !.start = remote]

\* `if self.has_changed(args, rule): self.result['changed'] = True`
\* (lines 773-774); an exception of int() ends the run.
apply_has_changed ==
  /\ pc = "has_changed"
  /\ \E outcome \in has_changed(params.want_dict, params.current_dict,
                                 params.only_keys) :
       /\ changed' = (outcome = "true")
       /\ pc' = IF outcome = "raise" THEN "crashed" ELSE "exit"
  /\ UNCHANGED << remoteVars, runVars, scopeVars, memberVars, job, queries,
                  ret, err, msg, rule, calls, tags_cache, result >>

NextDetect ==
  \/ apply_has_changed
  \/ main_exit

SpecDetect == InitDetect /\ [][NextDetect]_vars

----------------------------------------------------------------------------
(* present_members on its own: every list of wanted names, every listing
   of machines and every set of existing members *)

\* The lists of at most n names.
Lists(n) == UNION {[1..k -> VmNames] : k \in 0..n}

\* One machine per id, any name each: machines may share a name.
VmListings ==
  {[i \in 1..Cardinality(VmIds) |-> [id |-> i, name |-> f[i]]] :
     f \in [VmIds -> VmNames]}

MembersParams ==
  {[BaseParams EXCEPT !.entry = "present_members", !.check_mode = c,
                      !.poll_async = a, !.members = m] :
     c \in BOOLEAN, a \in BOOLEAN,
     m \in {NoMembers} \cup {Members(l) : l \in Lists(MaxMembers)}}

InitMembers ==
  /\ params \in MembersParams
  /\ vms \in VmListings
  /\ \E existing \in SUBSET VmIds :
       remote = [EmptyRemote EXCEPT
                   !.rules = @ \cup {Rule(RuleId, RuleName, PublicIp,
                                          "source", 80, 8080)},
                   !.members[RuleId] = existing]
  /\ rule = rule_record(remote, CHOOSE r \in remote.rules : r.id = RuleId)
  /\ jobs = {}
  /\ job = NoJob
  /\ ret = NONE
  /\ pc = "present_members"
  /\ err = NONE
  /\ msg = NONE
  /\ queries = 0
  /\ cache = NoCache
  /\ lookups = << >>
  /\ returned = << >>
  /\ cs = NoSession
  /\ changed = FALSE
  /\ calls = << >>
  /\ to_assign = {}
  /\ to_remove = {}
  /\ tags_cache = {}
  /\ result = [changed |-> FALSE, tags |-> {}]
  /\ run = 1
  /\ prev = [NoPrev EXCEPT !.start = remote]

NextMembers ==
  \/ present_members
  \/ present_members_assign
  \/ present_members_remove
  \/ poll_job
  \/ poll_sleep
  \/ remote_finish_polled
  \/ remote_finish_unpolled
  \/ main_exit

SpecMembers == InitMembers /\ [][NextMembers]_vars

----------------------------------------------------------------------------
(* Properties *)

Ops == {calls[i].op : i \in DOMAIN calls}
CallsOf(op) == {i \in DOMAIN calls : calls[i].op = op}

Main(module, state) ==
  params.module = module /\ params.entry = "main" /\ params.state = state

\* The desired state of the end-to-end case: the required fields, no tags,
\* no members.
PlainLbPresent ==
  /\ Main("lb", "present")
  /\ missing_params(params) = {}
  /\ ~params.tags.given
  /\ ~params.members.given

MatchingRules ==
  {r \in remote.rules : r.name = params.name /\ r.publicip = params.public_ip}

\* The matching rules on the cloud as the run found it.
StartMatchingRules ==
  {r \in prev.start.rules :
     r.name = params.name /\ r.publicip = params.public_ip}

\* C1, the run that finds no matching rule: whatever it has issued is the
\* one create call, carrying the desired fields, with changed set; it ends
\* reporting changed.
C1_FirstRun ==
  PlainLbPresent /\ ~params.check_mode /\ StartMatchingRules = {}
  => /\ pc \in {"poll_job", "exit", "done"} => calls # << >>
     /\ calls # << >> =>
          /\ Len(calls) = 1
          /\ calls[1].op = "createLoadBalancerRule"
          /\ calls[1].name = params.name
          /\ calls[1].publicip = params.public_ip
          /\ calls[1].algorithm = params.algorithm
          /\ calls[1].publicport = params.public_port
          /\ calls[1].privateport = params.private_port
          /\ changed
     /\ pc = "done" => result.changed

\* C1, the second run: the same desired state on the rule the first run
\* created.
C1_SecondRun ==
  /\ PlainLbPresent /\ ~params.check_mode /\ params.poll_async
  /\ prev.rerun = "same" /\ prev.pc = "done"
  /\ "createLoadBalancerRule" \in prev.ops
  => /\ calls = << >>
     /\ ~changed
     /\ pc = "done" => ~result.changed

\* C1: a live present run on a cloud without the rule issues exactly one
\* create call carrying the desired fields and reports changed; the same
\* run again, on the rule now there, issues no create and no update call
\* and reports changed = false.
C1_CreateThenIdempotent == C1_FirstRun /\ C1_SecondRun

C1_Witness ==
  /\ PlainLbPresent /\ ~params.check_mode /\ params.poll_async
  /\ prev.rerun = "same" /\ prev.pc = "done" /\ prev.changed
  /\ prev.ops = {"createLoadBalancerRule"}
  /\ pc = "done" /\ ~result.changed /\ calls = << >>
  /\ MatchingRules # {}

\* What an absent run looks for, on the cloud as the run found it.
StartMatchingTemplates ==
  {t \in prev.start.templates :
     IF params.checksum = NONE THEN t.name = params.name
     ELSE t.checksum = params.checksum}

StartMatchingIps ==
  {ip \in prev.start.ips : ip.ipaddress = params.ip_address}

\* The lookup of an absent run finds nothing (and can be made at all).
AbsentLookupEmpty ==
  \/ Main("lb", "absent") /\ params.public_ip = PublicIp
       /\ StartMatchingRules = {}
  \/ Main("template", "absent") /\ StartMatchingTemplates = {}
  \/ Main("ip", "absent") /\ params.ip_address # NONE /\ StartMatchingIps = {}

\* C2: in every module an absent run whose lookup finds nothing ends
\* normally, reports changed = false and issues no delete or disassociate
\* call.
C2_AbsentOnNothing ==
  AbsentLookupEmpty /\ pc # "start"
  => /\ pc \in {"exit", "done"}
     /\ calls = << >>
     /\ ~changed
     /\ pc = "done" => ~result.changed

DeleteOps == {"deleteLoadBalancerRule", "deleteTemplate"}

\* The id of the resource the lookup of a load-balancer or template absent
\* run finds, 0 if none.
\* The getters of the load-balancer run find its scope on the cloud as the
\* run found it.
ScopeResolved ==
  ~Stopped(_get_common_args(Scope(params, NoCache, << >>), prev.start.ips))

StartFoundId ==
  IF params.module = "lb"
    THEN (IF StartMatchingRules = {} \/ ~ScopeResolved THEN 0
          ELSE (CHOOSE r \in StartMatchingRules : TRUE).id)
    ELSE (IF StartMatchingTemplates = {} THEN 0
          ELSE (CHOOSE t \in StartMatchingTemplates :
                  \A u \in StartMatchingTemplates : t.id <= u.id).id)

RemoteIds(rem) == {r.id : r \in rem.rules} \cup {t.id : t \in rem.templates}

\* A delete job for the resource finishes successfully in this step.
DeleteFinishes(id) ==
  \/ /\ job.status = "pending" /\ job'.status = "ok"
     /\ job.req.op \in DeleteOps /\ job.req.id = id
  \/ \E rq \in jobs \ jobs' : rq.op \in DeleteOps /\ rq.id = id

C3_AbsentRun ==
  /\ (Main("lb", "absent") \/ Main("template", "absent"))
       /\ ~params.check_mode /\ StartFoundId # 0 /\ pc # "start"
     => /\ Len(calls) = 1
        /\ calls[1].op = (IF params.module = "lb" THEN "deleteLoadBalancerRule"
                          ELSE "deleteTemplate")
        /\ calls[1].id = StartFoundId
        /\ changed
        /\ pc = "done" => result.changed
        /\ params.poll_async /\ pc \in {"exit", "done"}
             => StartFoundId \notin RemoteIds(remote)
  /\ \A rq \in jobs \cup {job.req} \cup Range(calls) :
       rq.op \in DeleteOps => params.state = "absent" /\ ~params.check_mode

UpdateDiffers == params.algorithm # rule.algorithm

UpdateRequest ==
  [Req("updateLoadBalancerRule") EXCEPT !.id = rule.id,
                                        !.algorithm = params.algorithm]

\* C4 as claimed: in a present run that finds the rule, the update call is
\* issued if and only if the change detector reports a difference.
C4_UpdateIffChanged ==
  [][pc = "update" /\ pc' # pc => (UpdateDiffers <=> calls' # calls)]_vars

\* C4, amended: in a live present run that finds the rule the update call
\* is issued, once and with changed set, if and only if the change detector
\* reports a difference; in check mode no update call is issued and a
\* difference still sets changed; without a difference no call is issued
\* and the rule found goes on unmodified.
C4_LiveUpdateIffChanged ==
  /\ [](Main("lb", "present") => Cardinality(CallsOf("updateLoadBalancerRule")) <= 1)
  /\ [][pc = "update" /\ pc' # pc =>
          /\ ~params.check_mode =>
               (IF UpdateDiffers THEN calls' = << UpdateRequest >> /\ changed'
                ELSE calls' = calls)
          /\ params.check_mode => calls' = calls
          /\ changed' = (changed \/ UpdateDiffers)
          /\ ~UpdateDiffers =>
               rule' = rule /\ pc' \in {"ensure_tags", "exit"}]_vars

C4_Witness ==
  /\ Main("lb", "present") /\ ~params.check_mode
  /\ Len(calls) >= 1 /\ calls[1] = UpdateRequest /\ changed
  /\ pc = "poll_job"

\* C5: in check mode no mutating call is issued.
C5_CheckModeIssuesNothing == params.check_mode => calls = << >>

\* C6: a check-mode run and a live run with the same inputs on the same
\* cloud report the same changed flag.
C6_SameChanged ==
  prev.rerun = "live" /\ prev.pc = "done" /\ pc = "done"
  => result.changed = prev.changed

C6_Witness ==
  /\ prev.rerun = "live" /\ prev.pc = "done" /\ pc = "done"
  /\ result.changed /\ calls # << >> /\ params.tags.given

TagsRun ==
  params.entry = "ensure_tags" /\ params.tags.given /\ rule.has_tags

\* The tags observed when the run began.
StartTags == prev.start.tags[rule.id]

TagCall(operation, tags) ==
  IF tags = {} THEN << >>
  ELSE << [Req(operation) EXCEPT !.id = rule.id, !.tags = tags] >>

\* C7: a live ensure_tags run with desired tags A on observed tags B issues
\* a tag-delete call with exactly B \ A when that is not empty, then a
\* tag-create call with exactly A \ B when that is not empty, and the
\* remote tag set afterwards equals A.
C7_TagsReconciled ==
  TagsRun /\ ~params.check_mode /\ pc = "done" /\ jobs = {}
  => /\ calls = TagCall("deleteTags", StartTags \ params.tags.tags)
                  \o TagCall("createTags", params.tags.tags \ StartTags)
     /\ remote.tags[rule.id] = params.tags.tags

\* C8: when the observed tag set already equals the desired one,
\* ensure_tags issues no tag call and does not set changed; so a second
\* run after a live run that reached the desired set issues nothing.
C8_TagsIdempotent ==
  TagsRun /\ StartTags = params.tags.tags
  => /\ calls = << >>
     /\ ~changed
     /\ pc = "done" => ~result.changed

C8_Witness ==
  /\ TagsRun /\ ~params.check_mode /\ StartTags = params.tags.tags
  /\ prev.rerun = "same" /\ prev.pc = "done" /\ prev.changed
  /\ "createTags" \in prev.ops
  /\ pc = "done" /\ calls = << >> /\ ~result.changed

MembersRun == params.entry = "present_members" /\ params.members.given

\* W: the ids of the listed machines bearing a wanted name.
WantedIds ==
  {vms[i].id : i \in {j \in DOMAIN vms :
                        vms[j].name \in Range(params.members.names)}}

\* E: the members of the rule when the run began.
ExistingIds == prev.start.members[RuleId]

AssignCall ==
  [Req("assignToLoadBalancerRule") EXCEPT !.id = RuleId,
                                          !.vms = WantedIds \ ExistingIds]

RemoveCall ==
  [Req("removeFromLoadBalancerRule") EXCEPT !.id = RuleId,
                                            !.vms = ExistingIds \ WantedIds]

\* C9: membership reconciliation issues one assign call naming exactly
\* W \ E when that is not empty, one remove call naming exactly E \ W when
\* that is not empty, nothing else, and no call naming a member of the
\* intersection of W and E.
C9_MemberCalls ==
  MembersRun
  => /\ \A i \in DOMAIN calls :
          /\ \/ calls[i] = AssignCall /\ WantedIds \ ExistingIds # {}
             \/ calls[i] = RemoveCall /\ ExistingIds \ WantedIds # {}
          /\ calls[i].vms \cap (WantedIds \cap ExistingIds) = {}
          /\ \A j \in DOMAIN calls : calls[i] = calls[j] => i = j
     /\ pc = "done" =>
          /\ WantedIds \ ExistingIds # {} => AssignCall \in Range(calls)
          /\ ExistingIds \ WantedIds # {} => RemoveCall \in Range(calls)

C9_Witness ==
  /\ MembersRun /\ pc = "done"
  /\ WantedIds \cap ExistingIds # {}
  /\ Len(calls) = 2
  /\ AssignCall \in Range(calls) /\ RemoveCall \in Range(calls)

\* Some wanted name is borne by no listed machine.
SomeNameUnresolved ==
  \E n \in Range(params.members.names) :
    \A i \in DOMAIN vms : vms[i].name # n

\* C10: present_members fails with ResourceNotFound, issuing no call, if
\* and only if some wanted name resolves to no machine, whatever names the
\* machines share and whatever names the list repeats.
C10_FailsIffUnresolved ==
  MembersRun /\ pc # "present_members"
  => /\ (err = "ResourceNotFound") <=> SomeNameUnresolved
     /\ SomeNameUnresolved => calls = << >>

Polling == pc \in {"poll_job", "poll_sleep"}

\* C11: poll_job given a record without a jobid returns that record as it
\* is and issues no status query.
C11_NoJobIdReturnsAtOnce ==
  [][pc = "poll_job" /\ pc' # pc /\ ~job.jobid
       => /\ rule' = Submission(FALSE)
          /\ queries = 0 /\ queries' = 0
          /\ pc' = "exit"
          /\ err' = NONE]_vars

C11_Witness ==
  /\ params.entry = "poll_job" /\ pc = "done"
  /\ rule = Submission(FALSE) /\ queries = 0

\* C12: a job that answers pending to the first k queries and done with a
\* result to query k + 1 makes poll_job issue exactly k + 1 queries and
\* then return; poll_job never returns after a query answered pending.
\* (A step that changes pc at "poll_job" is poll_job taking its turn.)
C12_QueriesUntilDone ==
  [][/\ pc = "poll_job" /\ pc' # pc /\ job.jobid /\ job.status = "pending"
          => pc' = "poll_sleep" /\ queries' = queries + 1 /\ rule' = rule
     /\ pc = "poll_sleep"
          => (pc' # pc => pc' = "poll_job") /\ queries' = queries
     /\ pc = "poll_job" /\ pc' # pc /\ job.jobid /\ job.status = "ok"
          => pc' = "exit" /\ queries' = queries + 1
     /\ pc' = pc => queries' = queries
     /\ ~Polling => queries' = queries]_vars

C12_Witness ==
  /\ params.entry = "poll_job" /\ pc = "done"
  /\ queries = 3 /\ rule = SubObject

\* The whole result of a finished job.
FullResult == [None EXCEPT !.name = "jobresult"]

\* C13: when the job is done poll_job returns the whole job result if no
\* key was asked for and the sub-object under the key if one was; it never
\* returns the record with the jobid it was given.
C13_ReturnsTheResult ==
  [][pc = "poll_job" /\ pc' # pc /\ job.jobid /\ job.status = "ok"
       => /\ ~job.key => rule' = FullResult
          /\ job.key /\ job.haskey => rule' = SubObject
          /\ rule' # Submission(TRUE)]_vars

\* C14: a job whose final answer carries the error text X makes poll_job
\* fail with RemoteOperationError carrying X; the failed run issues no
\* further status query and no further remote call.
C14_JobErrorFails ==
  [][/\ pc = "poll_job" /\ pc' # pc /\ job.jobid /\ job.status = "error"
          => /\ pc' = "failed" /\ err' = "RemoteOperationError"
             /\ msg' = job.errortext
             /\ queries' = queries + 1
             /\ calls' = calls
     /\ pc = "failed" /\ run' = run
          => pc' = "failed" /\ queries' = queries /\ calls' = calls]_vars

C14_Witness ==
  /\ params.entry = "main" /\ pc = "failed"
  /\ err = "RemoteOperationError" /\ msg = "Y"
  /\ queries = 2 /\ Len(calls) = 1

\* C15: once the job answers with a status other than pending, poll_job
\* returns or fails.
C15_ReturnsOnceNotPending ==
  (Polling /\ job.jobid /\ job.status \in {"ok", "error", "noresult"})
    ~> ~Polling

\* A desired value that is absent or empty: None or the empty string.
EmptyValue(value) == value.t = "none" \/ value.v = ""

\* The number a value denotes, as text without leading zeros.
NumberOf(value) == IF value.v = "080" THEN "80" ELSE value.v

\* The field is desired with a non-empty value, the current dict holds it,
\* and the current value, taken as the desired value's type, is another.
FieldDiffers(k) ==
  /\ k \in DOMAIN params.want_dict /\ k \in DOMAIN params.current_dict
  /\ ~EmptyValue(params.want_dict[k])
  /\ IF params.want_dict[k].t = "int"
       THEN NumberOf(params.current_dict[k]) # params.want_dict[k].v
       ELSE params.current_dict[k].v # params.want_dict[k].v

DetectRun == params.entry = "has_changed" /\ pc # "has_changed"

\* C16: has_changed(want, current) returns true if and only if some
\* non-empty desired field is in current and differs from it after the
\* current value is taken as the desired value's type; else it returns
\* false.
C16_TrueIffSomeFieldDiffers ==
  DetectRun /\ params.only_keys = {}
  => /\ pc # "crashed"
     /\ changed <=> \E k \in Fields : FieldDiffers(k)

\* C17: a desired field whose value is None or empty is never compared: a
\* desired dict of such fields alone never makes has_changed return true.
C17_EmptyNeverCompared ==
  DetectRun /\ (\A k \in DOMAIN params.want_dict :
                  EmptyValue(params.want_dict[k]))
  => ~changed /\ pc # "crashed"

ScopeRun == params.entry = "scope"

\* The listing each kind is resolved from.
ListingOf ==
  [domain |-> "listDomains", account |-> "listAccounts",
   project |-> "listProjects", zone |-> "listZones",
   vm |-> "listVirtualMachines", os_type |-> "listOsTypes",
   hypervisor |-> "listHypervisors", capabilities |-> "listCapabilities",
   ip_address |-> "listPublicIpAddresses"]

Listings(kind) == {i \in 1..Len(lookups) : lookups[i] = ListingOf[kind]}

\* What a call for this key returns of an entity: the entity, or its field
\* (a hypervisor is returned by name).
ValueOf(kind, key, e) ==
  IF kind = "hypervisor" THEN [ent |-> NoEnt, field |-> e.name]
  ELSE IF key = NONE THEN [ent |-> e, field |-> NONE]
  ELSE [ent |-> NoEnt, field |-> e[key]]

Returns(r, e) == [ent |-> r.ent, field |-> r.field] = ValueOf(r.kind, r.key, e)

\* C18: once a kind is resolved, it was listed exactly once however often
\* it is resolved in the run, and every later call for it returns the entity
\* (or the field of the entity) the first call found.
C18_ResolvedOnce ==
  ScopeRun =>
    \A kind \in ScopeKinds :
      cache[kind] # NoEnt =>
        /\ Cardinality(Listings(kind)) = 1
        /\ \A i \in 1..Len(returned) :
             returned[i].kind = kind => Returns(returned[i], cache[kind])

\* What the cloud lists for a kind in this run.
Listed(kind) == listing(params, Catalogue[kind])

\* The identifier is the entity's name or id up to letter case (an OS type
\* is named by its description; a domain by the three forms of its path).
Names(kind, e) ==
  IF kind = "domain" THEN {e.path}
  ELSE {e.id, e.name, e.displayname, e.description} \ {NONE}

Forms(kind, identifier) ==
  IF kind = "domain"
    THEN {lower(identifier), "root/" \o lower(identifier),
          "root" \o lower(identifier)}
    ELSE {lower(identifier)}

MatchesUpToCase(kind, identifier, e) ==
  \E n \in Names(kind, e) : lower(n) \in Forms(kind, identifier)

Matching(kind) ==
  {i \in 1..Len(Listed(kind)) :
     MatchesUpToCase(kind, params.wanted[kind], Listed(kind)[i])}

NamedKinds == DOMAIN Named

\* C19: once the listing of projects, zones, virtual machines, OS types or
\* hypervisors has been gone through, an identifier that is a listed
\* entity's name or id up to letter case has resolved to that entity.
C19_MatchesAnyCase ==
  ScopeRun =>
    \A kind \in {"project", "zone", "vm", "os_type", "hypervisor"} :
      /\ params.wanted[kind] # NONE
      /\ Listings(kind) # {}
      => \A i \in Matching(kind) : cache[kind] = Listed(kind)[i]

\* C20: once the listing of a kind has been gone through for an identifier
\* that matches none of the listed entities, the run has failed with
\* ResourceNotFound, nothing is cached for the kind, and no call has
\* returned anything for it.
C20_NoMatchFails ==
  ScopeRun =>
    \A kind \in NamedKinds :
      /\ params.wanted[kind] # NONE
      /\ Listings(kind) # {}
      /\ Matching(kind) = {}
      => /\ pc = "failed" /\ err = "ResourceNotFound"
         /\ cache[kind] = NoEnt
         /\ \A i \in 1..Len(returned) : returned[i].kind # kind

C20_Witness ==
  /\ ScopeRun /\ pc = "failed" /\ err = "ResourceNotFound"
  /\ params.wanted.zone = "nowhere" /\ params.wanted.domain = "ops"
  /\ lookups = << "listDomains", "listZones" >>
  /\ cache.zone = NoEnt /\ cache.domain = Domains[2]
  /\ Len(returned) = 1

\* The kinds that fall back to the first listed entity.
DefaultKinds == {"zone", "hypervisor"}

\* Every call for the kind returned nothing.
ReturnedNone(kind) ==
  \A i \in 1..Len(returned) :
    returned[i].kind = kind =>
      returned[i].ent = NoEnt /\ returned[i].field = NONE

\* Every call for the kind returned this entity or the field asked of it.
ReturnedOnly(kind, e) ==
  \A i \in 1..Len(returned) :
    returned[i].kind = kind => Returns(returned[i], e)

NoDefault ==
  \A kind \in NamedKinds \ DefaultKinds :
    params.wanted[kind] = NONE => cache[kind] = NoEnt /\ ReturnedNone(kind)

AccountWithoutDomain ==
  /\ ScopeRun
  /\ params.wanted.account # NONE
  /\ params.wanted.domain = NONE

\* C22: in a run that names an account and no domain, a call of
\* get_account ends the run with ConfigError, issues no listing and caches
\* nothing; no account or domain listing is ever issued in such a run and
\* no account is cached.
C22_AccountNeedsDomain ==
  [][AccountWithoutDomain =>
       /\ Listings("account") = {} /\ Listings("domain") = {}
       /\ cache.account = NoEnt
       /\ cache'.account = NoEnt
       /\ resolve_account =>
            /\ pc' = "failed" /\ err' = "ConfigError"
            /\ lookups' = lookups /\ cache' = cache
            /\ returned' = returned]_vars

C22_Witness ==
  /\ AccountWithoutDomain
  /\ pc = "failed" /\ err = "ConfigError"
  /\ msg = "Account must be specified with Domain"
  /\ lookups = << "listZones" >>
  /\ Len(returned) = 1

ProjectResolved == ScopeRun /\ Listings("project") # {} /\ cache.project # NoEnt

\* The kind was listed before the projects were.
ListedBeforeProjects(kind) ==
  \E i \in Listings(kind) : \A j \in Listings("project") : i < j

\* C23: a project is resolved (listed and cached) only in a run in which
\* the account and the domain are both named and both resolved.
C23_ProjectNeedsAccountAndDomain ==
  ProjectResolved =>
    /\ params.wanted.account # NONE /\ cache.account # NoEnt
    /\ params.wanted.domain # NONE /\ cache.domain # NoEnt

\* C23 for the account and the domain a run names: when a project is
\* resolved, each of the two that the run names was listed before the
\* projects and is cached, and an account is never named without a domain.
C23_ProjectAfterNamedScope ==
  ProjectResolved =>
    /\ params.wanted.account # NONE
         => /\ cache.account # NoEnt /\ ListedBeforeProjects("account")
            /\ params.wanted.domain # NONE
    /\ params.wanted.domain # NONE
         => cache.domain # NoEnt /\ ListedBeforeProjects("domain")

C23_Witness ==
  /\ ProjectResolved
  /\ params.wanted.account = "admin" /\ params.wanted.domain = "ops"
  /\ lookups = << "listDomains", "listAccounts", "listProjects" >>
  /\ cache.project = Projects[1]
  /\ cache.account = Accounts[1]

DomainListed ==
  ScopeRun /\ params.wanted.domain # NONE /\ Listings("domain") # {}

\* C24: once the domains have been gone through, the domain is resolved
\* exactly when one listed domain and no other has a path that is, up to
\* letter case, the identifier, "root/" + identifier or "root" +
\* identifier; it is then that domain, and otherwise the run has failed with
\* ResourceNotFound and no domain is cached.
C24_OneDomainMatches ==
  DomainListed =>
    IF Cardinality(Matching("domain")) = 1
      THEN \A i \in Matching("domain") : cache.domain = Listed("domain")[i]
      ELSE pc = "failed" /\ err = "ResourceNotFound" /\ cache.domain = NoEnt

\* A live present run for a load-balancer rule with tags or members.
LbPresentLive ==
  /\ Main("lb", "present")
  /\ ~params.check_mode
  /\ params.tags.given \/ params.members.given

\* The create or the update hands its rule back to present_lb_rule.
RuleSettled ==
  \/ pc \in {"create", "update"} /\
     pc' \notin {pc, "poll_job", "failed", "crashed"}
  \/ pc = "poll_job" /\ ret = "after_rule" /\
     pc' \notin {"poll_job", "poll_sleep", "failed", "crashed"}

\* C25: in a live present run for a load-balancer rule with tags or
\* members, polled or not, the create and the update are followed by the
\* tag reconciliation, the membership reconciliation starts only when the
\* tag reconciliation is through, and the run returns only from the
\* membership reconciliation.
C25_TagsThenMembers ==
  [][LbPresentLive =>
       /\ RuleSettled => pc' = "ensure_tags"
       /\ pc' = "present_members" /\ pc # pc'
            => pc \in {"ensure_tags", "tags_create", "tags_refresh"}
       /\ pc' = "exit" /\ pc # pc'
            => \/ pc \in {"present_members", "members_remove"}
               \/ pc = "poll_job" /\ ret = "exit"]_vars

\* A mutating call is issued and answered with errortext: no job comes of
\* it and the cloud is as it was.
AnsweredWithError ==
  /\ Len(calls') = Len(calls) + 1
  /\ jobs' = jobs
  /\ job' = job
  /\ remote' = remote

\* poll_job takes its turn and finds the job failed.
PollFails ==
  pc = "poll_job" /\ pc' # pc /\ job.jobid /\ job.status = "error"

\* C26: a mutating call answered with errortext, and a poll that finds the
\* job failed, end the run there with RemoteOperationError; a failed run
\* issues no further call.
C26_ErrorAborts ==
  [][/\ AnsweredWithError \/ PollFails
          => pc' = "failed" /\ err' = "RemoteOperationError"
     /\ pc = "failed" /\ run' = run => pc' = "failed" /\ calls' = calls]_vars

\* The address an absent run is to release is bound by a static NAT mapping
\* when the run starts.
StaticNatBound ==
  /\ Main("ip", "absent")
  /\ \E ip \in prev.start.ips :
       ip.ipaddress = params.ip_address /\ ip.isstaticnat

\* C27: an absent run on an address bound by static NAT has, once it has
\* looked the address up, failed with StateConflict, issued no call, set no
\* changed flag and left the cloud as it found it.
C27_StaticNatConflict ==
  StaticNatBound /\ pc # "start"
  => /\ pc = "failed" /\ err = "StateConflict"
     /\ calls = << >>
     /\ ~changed /\ ~result.changed
     /\ remote = prev.start

C27_Witness ==
  /\ StaticNatBound
  /\ pc = "failed" /\ err = "StateConflict"
  /\ ~params.check_mode
  /\ remote.ips = {IpAddress(PublicIp, TRUE)}

Connected == params.entry = "connect" /\ cs # NoSession

AllCredentials == \A c \in Credentials : params[c] # NONE

\* C28: with api_key, api_secret and api_url all supplied the session is
\* made from them and the profile is not read; a session made from the
\* profile means they were not all supplied.
C28_ExplicitCredentialsFirst ==
  Connected =>
    /\ AllCredentials
         => /\ cs.via = "explicit"
            /\ cs.key = params.api_key /\ cs.secret = params.api_secret
            /\ cs.endpoint = params.api_url
            /\ lookups = << >>
    /\ cs.via = "profile" => ~AllCredentials

LbPresentRun == Main("lb", "present") /\ pc # "start"

Unsupplied == {"algorithm", "private_port", "public_port"} \ params.supplied

\* C29: a present run of the load-balancer module that leaves out algorithm,
\* private_port or public_port fails with ConfigError, the message naming
\* the fields left out, and has issued no remote call; a present run that
\* supplies all three never fails with ConfigError.
C29_MissingFieldsRejected ==
  LbPresentRun =>
    /\ Unsupplied # {}
         => /\ pc = "failed" /\ err = "ConfigError"
            /\ msg = missing_message(Unsupplied)
            /\ calls = << >> /\ queries = 0 /\ remote = prev.start
    /\ Unsupplied = {} => err # "ConfigError"

UpdateCalls == {calls[i] : i \in CallsOf("updateLoadBalancerRule")}

\* The rule the run found differs from the desired state in its ports only.
DiffersInPortsOnly ==
  /\ PlainLbPresent
  /\ \E r \in StartMatchingRules :
       /\ r.algorithm = params.algorithm
       /\ r.publicport # params.public_port
            \/ r.privateport # params.private_port

\* C30: an update call never carries public_port or private_port, and a
\* present run whose desired state differs from the rule on the cloud in
\* its ports only issues no update call, leaves the rule as it is and
\* reports changed = false.
C30_PortsNeverUpdated ==
  /\ \A rq \in UpdateCalls : rq.publicport = 0 /\ rq.privateport = 0
  /\ DiffersInPortsOnly
       => /\ UpdateCalls = {} /\ calls = << >>
          /\ ~changed
          /\ remote = prev.start
          /\ pc \notin {"failed", "crashed"}
          /\ pc = "done" => ~result.changed

C30_Witness ==
  /\ DiffersInPortsOnly
  /\ pc = "done" /\ ~result.changed
  /\ \E r \in remote.rules :
       /\ r.name = params.name /\ r.publicip = params.public_ip
       /\ r.publicport = 80 /\ r.privateport = 8080
       /\ params.public_port = 8000

IpPresentLive == Main("ip", "present") /\ ~params.check_mode

TagCalls(operation) == {i \in DOMAIN calls : calls[i].op = operation}

\* An observed tag and a desired tag of the same key: the value changes.
ChangedValues ==
  {pair \in StartTags \X params.tags.tags :
     /\ pair[1].key = pair[2].key /\ pair[1].value # pair[2].value
     /\ pair[1] \notin params.tags.tags /\ pair[2] \notin StartTags}

\* C32: in tag reconciliation every tag-delete call is issued before every
\* tag-create call and no other tag call exists; a tag whose value changes
\* is in the delete call with its old value and in the later create call
\* with its new one.
C32_DeleteBeforeCreate ==
  TagsRun =>
    /\ \A i \in TagCalls("deleteTags") : \A j \in TagCalls("createTags") : i < j
    /\ \A i \in DOMAIN calls : calls[i].op \in {"deleteTags", "createTags"}
    /\ ~params.check_mode /\ (pc = "done" \/ TagCalls("createTags") # {})
         => \A pair \in ChangedValues :
              /\ Len(calls) = 2
              /\ calls[1].op = "deleteTags" /\ pair[1] \in calls[1].tags
              /\ calls[2].op = "createTags" /\ pair[2] \in calls[2].tags
              /\ pair[2] \notin calls[1].tags /\ pair[1] \notin calls[2].tags

C32_Witness ==
  /\ TagsRun /\ ~params.check_mode /\ pc = "done"
  /\ StartTags = {T1} /\ params.tags.tags = {T2}
  /\ calls = TagCall("deleteTags", {T1}) \o TagCall("createTags", {T2})
  /\ remote.tags[rule.id] = {T2}

\* C33: in membership reconciliation every remove call is issued before
\* every assign call.
C33_RemoveBeforeAssign ==
  MembersRun =>
    \A i \in CallsOf("removeFromLoadBalancerRule") :
      \A j \in CallsOf("assignToLoadBalancerRule") : i < j

\* No two tags of the set have the same key and different values.
NoKeyConflict(tags) == \A a, b \in tags : a.key = b.key => a = b

\* C34: when neither the observed nor the desired tags hold two values
\* under one key, the tags on the cloud never do at any moment of the
\* reconciliation, whenever the cloud gets to finish the tag jobs.
C34_NoConflictingTags ==
  /\ TagsRun
  /\ NoKeyConflict(StartTags) /\ NoKeyConflict(params.tags.tags)
  => NoKeyConflict(remote.tags[rule.id])

\* C35: the last step of ensure_tags lists the tags anew: the tags field of
\* the resource becomes the cloud's tag set of that moment and the cache is
\* replaced by it; no other step sets the field, no call follows the
\* listing, and the run reports the field as the listing left it.
C35_TagsRefetched ==
  [][TagsRun /\ run' = run =>
       /\ pc = "tags_refresh" /\ pc' # pc
            => /\ rule'.tags = remote.tags[rule.id]
               /\ caches_tags => tags_cache' = remote.tags[rule.id]
               /\ remote' = remote /\ calls' = calls
       /\ pc # "tags_refresh" => rule'.tags = rule.tags
       /\ pc \in {"exit", "done"} => calls' = calls
       /\ pc' = "done" => result'.tags = rule.tags]_vars

C35_Witness ==
  /\ TagsRun /\ ~params.check_mode /\ params.module = "template"
  /\ pc = "done"
  /\ StartTags = {T1} /\ params.tags.tags = {T2}
  /\ Len(calls) = 2
  /\ result.tags = {T2} /\ remote.tags[rule.id] = {T2}

\* The listings of the scope getters, and the calls of the three stages.
ScopeListings ==
  {"listDomains", "listAccounts", "listProjects", "listZones",
   "listPublicIpAddresses"}
RuleCalls == {"createLoadBalancerRule", "updateLoadBalancerRule"}
TagCallOps == {"deleteTags", "createTags"}
MemberCalls == {"assignToLoadBalancerRule", "removeFromLoadBalancerRule"}

\* The listings and the calls this step adds.
NewLookups == {i \in DOMAIN lookups' : i > Len(lookups)}
NewCalls == {i \in DOMAIN calls' : i > Len(calls)}

LbPresentAwaited == Main("lb", "present") /\ params.poll_async

\* C36: in a present run of the load-balancer module that waits for its
\* jobs, the remote operations come in the order scope resolution, lookup
\* of the rule, create or update call, status queries of its job, tag
\* calls, member calls. A scope listing is issued only while no rule
\* lookup and no mutating call has been made; the rule lookup and the
\* create or update call come before every other mutating call; the status
\* of the create or update job is asked while it is the only call; and a
\* tag or member call is issued only when the job of the create or update
\* call has been asked for at least once and is no longer being waited
\* for, member calls after the last tag call.
C36_FixedOrder ==
  [][LbPresentAwaited /\ run' = run =>
       /\ Len(lookups') >= Len(lookups)
       /\ SubSeq(lookups', 1, Len(lookups)) = lookups
       /\ Len(calls') >= Len(calls)
       /\ SubSeq(calls', 1, Len(calls)) = calls
       /\ \A i \in NewLookups :
            /\ lookups'[i] \in ScopeListings
                 => /\ calls' = << >>
                    /\ \A j \in 1..i : lookups'[j] # "listLoadBalancerRules"
            /\ lookups'[i] = "listLoadBalancerRules" => calls' = << >>
            /\ lookups'[i] = "listTags"
                 => \A j \in DOMAIN calls' : calls'[j].op \notin MemberCalls
       /\ \A i \in NewCalls :
            /\ calls'[i].op \in RuleCalls
                 => /\ i = 1
                    /\ lookups # << >>
                    /\ lookups[Len(lookups)] = "listLoadBalancerRules"
            /\ calls'[i].op \in TagCallOps \cup MemberCalls
                 => /\ job = NoJob
                    /\ \A j \in 1..(i - 1) :
                         calls'[j].op \in RuleCalls
                           => calls'[j] \notin jobs /\ queries >= 1
            /\ calls'[i].op \in TagCallOps
                 => \A j \in 1..(i - 1) : calls'[j].op \notin MemberCalls
       /\ queries' > queries /\ job.req.op \in RuleCalls
            => calls = << job.req >> /\ calls' = calls /\ lookups' = lookups]_vars

C36_Witness ==
  /\ LbPresentAwaited /\ ~params.check_mode /\ pc = "done"
  /\ params.wanted.project = "Web"
  /\ Len(calls) = 3
  /\ calls[1].op = "createLoadBalancerRule"
  /\ calls[2].op = "createTags"
  /\ calls[3].op = "assignToLoadBalancerRule"
  /\ queries >= 1
  /\ \E i \in DOMAIN lookups :
       /\ lookups[i] = "listLoadBalancerRules"
       /\ {lookups[j] : j \in 1..(i - 1)} = ScopeListings
       /\ {lookups[j] : j \in (i + 1)..Len(lookups)}
            = {"listTags", "listVirtualMachines",
               "listLoadBalancerRuleInstances"}

\* The remote calls that change the cloud.
MutatingCalls ==
  RuleCalls \cup TagCallOps \cup MemberCalls \cup DeleteOps
  \cup {"createTemplate", "registerTemplate", "associateIpAddress",
        "disassociateIpAddress"}

\* C37: in every step of a run that issues a mutating call the changed
\* flag is set when the step is over, the flag once set stays set for the
\* rest of the run, and a run that returns reports it.
C37_ChangedWithEveryCall ==
  [][run' = run =>
       /\ \A i \in NewCalls : calls'[i].op \in MutatingCalls /\ changed'
       /\ calls # << >> => changed
       /\ changed => changed'
       /\ pc' = "done" /\ pc # "done" => result'.changed = changed]_vars

C37_Witness ==
  /\ Main("lb", "present") /\ pc = "done" /\ result.changed /\ changed
  /\ Len(calls) = 4
  /\ calls[1].op = "updateLoadBalancerRule"
  /\ calls[2].op = "deleteTags"
  /\ calls[3].op = "createTags"
  /\ calls[4].op = "assignToLoadBalancerRule"

\* The calls that create, update or delete the resource of the module.
CreateCalls ==
  {"createLoadBalancerRule", "createTemplate", "registerTemplate",
   "associateIpAddress"}
UpdateCallOps == {"updateLoadBalancerRule"}
DeleteCalls == DeleteOps \cup {"disassociateIpAddress"}
PrimaryCalls == {i \in DOMAIN calls :
                   calls[i].op \in CreateCalls \cup UpdateCallOps \cup DeleteCalls}

\* C38: a run issues at most one create, update or delete call for its
\* resource: a present run no delete, an absent run no create and no update.
C38_OnePrimaryCall ==
  params.entry = "main" =>
    /\ Cardinality(PrimaryCalls) <= 1
    /\ \A i \in PrimaryCalls :
         /\ i = 1
         /\ params.state = "present" => calls[i].op \notin DeleteCalls
         /\ params.state = "absent" => calls[i].op \in DeleteCalls

C38_Witness ==
  /\ Main("lb", "present") /\ pc = "done" /\ run = 2
  /\ prev.rerun = "live" /\ prev.ops = {} /\ prev.changed
  /\ params.members.given /\ result.changed
  /\ PrimaryCalls = {1} /\ calls[1].op = "updateLoadBalancerRule"
  /\ Len(calls) >= 2

\* What the getters of _get_common_args come to on the cloud as the run
\* found it.
ScopeOutcome ==
  _get_common_args(Scope(params, NoCache, << >>), prev.start.ips)

\* A getter calls fail_json (domain, account, project, zone or public ip
\* not found, account without domain) or raises.
ScopeFails == ScopeOutcome.err # NONE \/ ScopeOutcome.crashed

\* A load-balancer run that gets as far as its scope.
LbScopeRun ==
  /\ params.module = "lb" /\ params.entry = "main" /\ pc # "start"
  /\ params.state = "present" => missing_params(params) = {}

TagsOmitted == params.entry = "ensure_tags" /\ ~params.tags.given

\* C40: when the tags parameter is left out, ensure_tags lists nothing,
\* issues no tag call, does not set changed, leaves the tags on the cloud
\* as they are and returns the resource with the tags it was given; and in
\* any run a tag leaves the cloud only when a list of tags is given that
\* does not hold it.
C40_OmittedTagsUntouched ==
  /\ [](TagsOmitted =>
          /\ calls = << >>
          /\ lookups = << >>
          /\ jobs = {}
          /\ ~changed
          /\ remote = prev.start
          /\ rule.tags = StartTags
          /\ pc \in {"ensure_tags", "exit", "done"}
          /\ pc = "done" => ~result.changed /\ result.tags = StartTags)
  /\ [][params.entry = "ensure_tags" /\ run' = run =>
          \A tag \in remote.tags[rule.id] \ remote'.tags[rule.id] :
            params.tags.given /\ tag \notin params.tags.tags]_vars

C40_Witness ==
  /\ TagsOmitted /\ params.module = "lb" /\ ~params.check_mode
  /\ rule.has_tags /\ pc = "done"
  /\ StartTags = {T1, T3}
  /\ remote.tags[rule.id] = {T1, T3}
  /\ result.tags = {T1, T3} /\ ~result.changed
  /\ calls = << >>
====
